---- MODULE Spec2Model ----
(***************************************************************************)
(* LabLib: the Hiero effects-file processor, the operator decoders, the    *)
(* affine transform engine and the OCIO config file generator.             *)
(*                                                                         *)
(* Python values are modelled as follows.  A dict is a function whose      *)
(* DOMAIN is its key set (the empty dict is <<>>).  A str is a string.     *)
(* None is the record NoneObj.  A float is modelled by the integer it      *)
(* equals: the bounded inputs are integer valued and rotations are         *)
(* multiples of 90 degrees, so every matrix entry is an integer; IEEE      *)
(* rounding is outside the model.  A JSON number and a JSON list are       *)
(* tagged (Num, Lst) where the code tells them apart with isinstance.      *)
(***************************************************************************)
EXTENDS Integers, Sequences, FiniteSets, TLC

VARIABLES
    \* ---- the environment of AYONHieroEffectsFileProcessor
    doc,              \* values of the effects JSON object, in document order
    doc_state,        \* "ok", "missing" or "malformed": the file on disk
    existing,         \* the LUT files that exist on disk (Path records)
    \* ---- AYONHieroEffectsFileProcessor
    constructed,      \* __init__ has returned
    target_dir_path,  \* a directory Path, or NoneObj
    _color_ops,
    _repo_ops,
    raised,           \* the exception the last call raised, or "None"
    log_records,      \* the records the last call logged
    last_step,        \* the last step taken: "load", "reload" (a load right
                      \* after a load), "clear_operators", "get_oiiotool_cmd"
                      \* or "disk"
    returned,         \* what the last call returned, NoneObj when nothing
    \* ---- Transform and OIIORepositionProcessor
    node_data,        \* the dict last given to Transform.from_node_data
    xform,            \* the Transform object, NoneObj before there is one
    matrix,           \* the local "matrix" of xform.to_oiio_args()
    oiio_args,        \* what xform.to_oiio_args() returned, <<>> before the call
    operators,        \* OIIORepositionProcessor.operators
    source_width,     \* NoSize stands for None
    source_height,
    _raw_matrix,
    chain_call,       \* the arguments and outcome of the get_matrix_chained
                      \* call made on the present operators and sizes, or NoCall
    \* ---- a colour operator
    color_data,       \* the dict given to OCIOCDLTransform.from_node_data
    color_op,         \* the operator object, NoneObj before there is one
    ocio_obj,         \* what color_op.to_ocio_obj() returned, NoneObj before
    \* ---- OCIOConfigFileGenerator
    gen,              \* instance id -> the instance's attributes, NoneObj
                      \* before __init__ has returned
    cls_views,        \* the list bound to the class attribute _views
    cls_vars,         \* the dict bound to the class attribute _vars
    disk,             \* destination path -> the config written there
    gen_call,         \* the last generator call: operation, instance,
                      \* exception raised and value returned
    \* ---- AYONOCIOLookProduct and AYONOCIOLookFileProcessor
    look_doc,         \* the look file: the parsed JSON document
    look_target,      \* target_path, a Path or NoneObj
    look_files,       \* the files below the directory of the look file
    look_ops,         \* _operators of the processor, NoneObj before __init__
    look_call,        \* the last call: operation, exception, log, value
    \* ---- OIIORepositionProcessor.get_oiiotool_cmd and the emitters
    dest_width,       \* NoSize stands for None
    dest_height,
    tool_call,        \* the last call: operation, arguments, exception, value
    \* ---- call_cmd
    cmd_run           \* the call_cmd() in progress: position, loop index,
                      \* attempts started and how each ended, out

fx_vars == <<doc, doc_state, existing, constructed, target_dir_path,
             _color_ops, _repo_ops, raised, log_records, last_step, returned>>
xf_vars == <<node_data, xform, matrix, oiio_args>>
chain_vars == <<operators, source_width, source_height, _raw_matrix, chain_call>>
repo_vars == <<node_data, xform, matrix, oiio_args, operators, source_width,
               source_height, _raw_matrix, chain_call>>
color_vars == <<color_data, color_op, ocio_obj>>
gen_vars == <<gen, cls_views, cls_vars, disk, gen_call>>
look_vars == <<look_doc, look_target, look_files, look_ops, look_call>>
tool_vars == <<dest_width, dest_height, tool_call>>
late_vars == <<look_doc, look_target, look_files, look_ops, look_call,
               dest_width, dest_height, tool_call, cmd_run>>
ext_vars == <<color_data, color_op, ocio_obj, gen, cls_views, cls_vars, disk, gen_call,
              look_doc, look_target, look_files, look_ops, look_call,
              dest_width, dest_height, tool_call, cmd_run>>
vars == <<doc, doc_state, existing, constructed, target_dir_path,
          _color_ops, _repo_ops, raised, log_records, last_step, returned,
          node_data, xform, matrix, oiio_args, operators, source_width,
          source_height, _raw_matrix, chain_call,
          color_data, color_op, ocio_obj, gen, cls_views, cls_vars, disk, gen_call,
          look_doc, look_target, look_files, look_ops, look_call,
          dest_width, dest_height, tool_call, cmd_run>>

----------------------------------------------------------------------------
(* Bounds *)

MaxEntries == 2
MaxSubTrackIndex == 1
MaxCoord == 1
MaxScale == 2
MaxOps == 2
MaxSize == 2
MaxViews == 2
MaxSearchPaths == 3
MaxItems == 2
MaxRetries == 3

----------------------------------------------------------------------------
(* Python helpers *)

NoneObj == [cls |-> "NoneType"]

Num(n) == [t |-> "number", v |-> n]

Lst(s) == [t |-> "list", v |-> s]

\* a str held in a field that may also hold a number
Str(s) == [t |-> "str", v |-> s]

\* dict.get(key, default)
Get(d, k, default) == IF k \in DOMAIN d THEN d[k] ELSE default

\* truthiness of d.get(key) for a str value
TruthyStr(d, k) == k \in DOMAIN d /\ d[k] # ""

\* str.startswith
StartsWith(s, prefix) == Len(s) >= Len(prefix) /\ SubSeq(s, 1, Len(prefix)) = prefix

\* "v in text" for two str
str_in(v, text) ==
    \E i \in 0 .. Len(text) - Len(v) : SubSeq(text, i + 1, i + Len(v)) = v

\* text.replace(old, new) for a non-empty old
RECURSIVE str_replace(_, _, _)
str_replace(text, old, new) ==
    IF Len(text) < Len(old) THEN text
    ELSE IF SubSeq(text, 1, Len(old)) = old
         THEN new \o str_replace(SubSeq(text, Len(old) + 1, Len(text)), old, new)
         ELSE SubSeq(text, 1, 1) \o str_replace(SubSeq(text, 2, Len(text)), old, new)

\* truthiness of d.get(key) for a dict value
TruthyDict(d, k) == k \in DOMAIN d /\ DOMAIN d[k] # {}

----------------------------------------------------------------------------
(* pathlib.Path.  A path is [abs, dir, name]: dir is the parent without a  *)
(* leading slash, name the final component.                                *)

Cwd == "work"

\* the position of the first ch in s, 0 when there is none
Find(s, ch) ==
    IF \E i \in 1 .. Len(s) : SubSeq(s, i, i) = ch
    THEN CHOOSE i \in 1 .. Len(s) :
             /\ SubSeq(s, i, i) = ch
             /\ \A j \in 1 .. i - 1 : SubSeq(s, j, j) # ch
    ELSE 0

\* one component of a path string: "." is dropped
Component(c) == IF c = "." THEN <<>> ELSE <<c>>

\* the components of a path string, without the empty ones and without "."
RECURSIVE Components(_)
Components(s) ==
    IF s = "" THEN <<>>
    ELSE LET i == Find(s, "/")
         IN  IF i = 0 THEN Component(s)
             ELSE IF i = 1 THEN Components(SubSeq(s, 2, Len(s)))
             ELSE Component(SubSeq(s, 1, i - 1)) \o Components(SubSeq(s, i + 1, Len(s)))

RECURSIVE JoinSlash(_)
JoinSlash(c) ==
    IF c = <<>> THEN ""
    ELSE IF Len(c) = 1 THEN c[1]
    ELSE c[1] \o "/" \o JoinSlash(Tail(c))

\* the path of the given anchoring and components
PathOf(abs, c) ==
    [abs |-> abs,
     dir |-> JoinSlash(SubSeq(c, 1, Len(c) - 1)),
     name |-> IF c = <<>> THEN "" ELSE c[Len(c)]]

\* Path(str): parsing collapses repeated slashes
Path(s) == PathOf(StartsWith(s, "/"), Components(s))

\* as_posix(): the path without components is "."
as_posix(p) ==
    IF ~p.abs /\ p.dir = "" /\ p.name = "" THEN "."
    ELSE (IF p.abs THEN "/" ELSE "") \o p.dir
             \o (IF p.dir # "" /\ p.name # "" THEN "/" ELSE "") \o p.name

\* Path.resolve(): a relative path is made absolute under the working directory
resolve(p) ==
    IF p.abs THEN p
    ELSE [abs |-> TRUE,
          dir |-> IF p.dir = "" THEN Cwd ELSE Cwd \o "/" \o p.dir,
          name |-> p.name]

\* p / name
JoinPath(p, n) ==
    [abs |-> p.abs, dir |-> IF p.dir = "" THEN p.name ELSE p.dir \o "/" \o p.name,
     name |-> n]

\* p.parent
Parent(p) == Path((IF p.abs THEN "/" ELSE "") \o p.dir)

\* p / s for a path string s: an absolute s replaces p
Div(p, s) == IF StartsWith(s, "/") THEN Path(s) ELSE Path(as_posix(p) \o "/" \o s)

\* the effects file given to the constructor, and the files around it
filepath == Path("shot/fx.json")

LutVerbatim == Path("/mnt/luts//a.cube")

LutSibling == [abs |-> FALSE, dir |-> "shot/resources", name |-> "a.cube"]

LutFiles == {LutVerbatim, LutSibling}

TargetDir == Path("published/resources")

\* Path(self.filepath.parent).rglob("*"): every existing file below the
\* directory of the effects file (the effects file itself included)
rglob_parent ==
    {f \in existing : f.dir = "shot/resources"}
        \cup (IF doc_state = "missing" THEN {} ELSE {filepath})

\* {f.name: f for f in ...rglob("*")}
all_relative_files_of(files) ==
    [n \in {f.name : f \in files} |-> CHOOSE f \in files : f.name = n]

----------------------------------------------------------------------------
(* lablib.operators: the classes and their from_node_data decoders *)

ColorClasses ==
    {"OCIOFileTransform", "OCIOColorSpace", "OCIOCDLTransform", "AYONOCIOLookProduct"}

RepositionClasses == {"Transform", "Crop", "Mirror2", "CornerPin2D"}

AbstractClasses == {"BaseOperator", "ColorOperator", "RepositionOperator"}

\* dict(inspect.getmembers(operators, inspect.isclass)).keys()
_wrapper_class_members == ColorClasses \cup RepositionClasses \cup AbstractClasses

OCIOFileTransform_from_node_data(data) ==
    [cls |-> "OCIOFileTransform",
     file |-> Get(data, "file", ""),
     cccid |-> Get(data, "cccid", ""),
     direction |-> Get(data, "direction", Num(0)),
     interpolation |-> Get(data, "interpolation", "linear")]

OCIOColorSpace_from_node_data(data) ==
    [cls |-> "OCIOColorSpace",
     in_colorspace |-> Get(data, "in_colorspace", ""),
     out_colorspace |-> Get(data, "out_colorspace", "")]

OCIOCDLTransform_from_node_data(data) ==
    IF TruthyStr(data, "file")
    THEN [cls |-> "OCIOCDLTransform",
          file |-> Get(data, "file", ""),
          interpolation |-> Get(data, "interpolation", "linear"),
          direction |-> Get(data, "direction", Num(0)),
          offset |-> Get(data, "offset", <<0, 0, 0>>),
          power |-> Get(data, "power", <<1, 1, 1>>),
          slope |-> Get(data, "slope", <<0, 0, 0>>),
          saturation |-> Get(data, "saturation", 1),
          cccid |-> Get(data, "cccid", "")]
    ELSE [cls |-> "OCIOCDLTransform",
          file |-> "None",  \* the dataclass default None
          interpolation |-> "linear",
          direction |-> Get(data, "direction", Num(0)),
          offset |-> Get(data, "offset", <<0, 0, 0>>),
          power |-> Get(data, "power", <<1, 1, 1>>),
          slope |-> Get(data, "slope", <<0, 0, 0>>),
          saturation |-> Get(data, "saturation", 1),
          cccid |-> ""]

AYONOCIOLookProduct_from_node_data(data) ==
    [cls |-> "AYONOCIOLookProduct",
     ocioLookItems |-> Get(data, "ocioLookItems", <<>>),
     ocioLookWorkingSpace |-> Get(data, "ocioLookWorkingSpace", <<>>)]

Transform_from_node_data(data) ==
    LET scale == Get(data, "scale", Lst(<<0, 0>>))
    IN  [cls |-> "Transform",
         translate |-> Get(data, "translate", <<0, 0>>),
         rotate |-> Get(data, "rotate", 0),
         scale |-> IF scale.t = "number" THEN <<scale.v, scale.v>> ELSE scale.v,
         center |-> Get(data, "center", <<0, 0>>),
         invert |-> Get(data, "invert", FALSE),
         skewX |-> Get(data, "skewX", 0),
         skewY |-> Get(data, "skewY", 0),
         skew_order |-> Get(data, "skew_order", "XY")]

\* Transform(): the dataclass field defaults
Transform_default ==
    [cls |-> "Transform",
     translate |-> <<0, 0>>,
     rotate |-> 0,
     scale |-> <<1, 1>>,
     center |-> <<0, 0>>,
     invert |-> FALSE,
     skewX |-> 0,
     skewY |-> 0,
     skew_order |-> "XY"]

Crop_from_node_data(data) ==
    [cls |-> "Crop", box |-> Get(data, "box", <<0, 0, 1920, 1080>>)]

Mirror2_from_node_data(data) ==
    [cls |-> "Mirror2", flop |-> Get(data, "flop", FALSE), flip |-> Get(data, "flip", FALSE)]

CornerPin2D_from_node_data(data) ==
    [cls |-> "CornerPin2D",
     from1 |-> Get(data, "from1", <<0, 0>>), from2 |-> Get(data, "from2", <<0, 0>>),
     from3 |-> Get(data, "from3", <<0, 0>>), from4 |-> Get(data, "from4", <<0, 0>>),
     to1 |-> Get(data, "to1", <<0, 0>>), to2 |-> Get(data, "to2", <<0, 0>>),
     to3 |-> Get(data, "to3", <<0, 0>>), to4 |-> Get(data, "to4", <<0, 0>>)]

\* self._wrapper_class_members[class_name].from_node_data(node_value); the
\* abstract classmethod of a base class has the body "pass" and returns None
from_node_data(class_name, data) ==
    CASE class_name = "OCIOFileTransform" -> OCIOFileTransform_from_node_data(data)
      [] class_name = "OCIOColorSpace" -> OCIOColorSpace_from_node_data(data)
      [] class_name = "OCIOCDLTransform" -> OCIOCDLTransform_from_node_data(data)
      [] class_name = "AYONOCIOLookProduct" -> AYONOCIOLookProduct_from_node_data(data)
      [] class_name = "Transform" -> Transform_from_node_data(data)
      [] class_name = "Crop" -> Crop_from_node_data(data)
      [] class_name = "Mirror2" -> Mirror2_from_node_data(data)
      [] class_name = "CornerPin2D" -> CornerPin2D_from_node_data(data)
      [] OTHER -> NoneObj

\* get_direction(direction)
get_direction(direction) ==
    IF direction = Str("inverse") THEN "TRANSFORM_DIR_INVERSE" ELSE "TRANSFORM_DIR_FORWARD"

\* get_interpolation(interpolation)
get_interpolation(interpolation) ==
    CASE interpolation = "linear" -> "INTERP_LINEAR"
      [] interpolation = "best" -> "INTERP_BEST"
      [] interpolation = "nearest" -> "INTERP_NEAREST"
      [] interpolation = "tetrahedral" -> "INTERP_TETRAHEDRAL"
      [] interpolation = "cubic" -> "INTERP_CUBIC"
      [] OTHER -> "INTERP_DEFAULT"

\* the OCIO transform objects the operators construct
FileTransform(src, cccId, direction, interpolation) ==
    [t |-> "FileTransform", src |-> src, cccId |-> cccId, direction |-> direction,
     interpolation |-> interpolation]

ColorSpaceTransform(src, dst) == [t |-> "ColorSpaceTransform", src |-> src, dst |-> dst]

CDLTransform(slope, offset, power, sat, direction) ==
    [t |-> "CDLTransform", slope |-> slope, offset |-> offset, power |-> power,
     sat |-> sat, direction |-> direction]

OCIOFileTransform_to_ocio_obj(op) ==
    <<FileTransform(as_posix(Path(op.file)), op.cccid, get_direction(op.direction),
                    get_interpolation(op.interpolation))>>

OCIOColorSpace_to_ocio_obj(op) ==
    <<ColorSpaceTransform(op.in_colorspace, op.out_colorspace)>>

\* "if self.file": None and "" are false
FileGiven(op) == op.file # "None" /\ op.file # ""

\* to_ocio_obj() of OCIOCDLTransform appending the CDL before the file transform
OCIOCDLTransform_to_ocio_obj_cdl_first(op) ==
    LET direction == get_direction(op.direction)
        cdl == CDLTransform(op.slope, op.offset, op.power, op.saturation, direction)
    IN  IF FileGiven(op)
        THEN <<cdl,
               FileTransform(as_posix(Path(op.file)),
                             IF op.cccid # "" THEN op.cccid ELSE "0",
                             direction, get_interpolation(op.interpolation))>>
        ELSE <<cdl>>

OCIOCDLTransform_to_ocio_obj(op) ==
    LET direction == get_direction(op.direction)
        effects == IF FileGiven(op)
                   THEN <<FileTransform(as_posix(Path(op.file)),
                                        IF op.cccid # "" THEN op.cccid ELSE "0",
                                        direction, get_interpolation(op.interpolation))>>
                   ELSE <<>>
    IN  Append(effects,
               CDLTransform(op.slope, op.offset, op.power, op.saturation, direction))

\* op.to_ocio_obj() for the operator classes the documents of the model hold
to_ocio_obj(op) ==
    CASE op.cls = "OCIOFileTransform" -> OCIOFileTransform_to_ocio_obj(op)
      [] op.cls = "OCIOColorSpace" -> OCIOColorSpace_to_ocio_obj(op)
      [] op.cls = "OCIOCDLTransform" -> OCIOCDLTransform_to_ocio_obj(op)

\* isinstance(obj, operators.ColorOperator)
IsColorOperator(obj) == obj.cls \in ColorClasses

\* an isinstance test that lets every decoded value through
IsRepositionOperator_any(obj) == TRUE

\* isinstance(obj, operators.RepositionOperator)
IsRepositionOperator(obj) == obj.cls \in RepositionClasses

----------------------------------------------------------------------------
(* lablib.lib.utils: 3x3 matrices, a matrix being the tuple of its rows *)

translate_matrix(t) == <<<<1, 0, t[1]>>, <<0, 1, t[2]>>, <<0, 0, 1>>>>

identity_matrix == translate_matrix(<<0, 0>>)

\* math.cos(math.radians(r)) and math.sin(math.radians(r)) at the right angles
CosDeg(r) == CASE r % 360 = 0 -> 1 [] r % 360 = 90 -> 0
               [] r % 360 = 180 -> -1 [] r % 360 = 270 -> 0

SinDeg(r) == CASE r % 360 = 0 -> 0 [] r % 360 = 90 -> 1
               [] r % 360 = 180 -> 0 [] r % 360 = 270 -> -1

rotate_matrix(r) ==
    <<<<CosDeg(r), -SinDeg(r), 0>>, <<SinDeg(r), CosDeg(r), 0>>, <<0, 0, 1>>>>

scale_matrix(s) == <<<<s[1], 0, 0>>, <<0, s[2], 0>>, <<0, 0, 1>>>>

mirror_matrix(x) == scale_matrix(IF ~x THEN <<1, -1>> ELSE <<-1, 1>>)

\* sum(a * b for a, b in zip(row, col)) for rows and columns of three
Dot(row, col) == row[1] * col[1] + row[2] * col[2] + row[3] * col[3]

\* zip(*m): the j-th column of m
Column(m, j) == <<m[1][j], m[2][j], m[3][j]>>

MultRow(row, m2) == <<Dot(row, Column(m2, 1)), Dot(row, Column(m2, 2)), Dot(row, Column(m2, 3))>>

mult_matrix(m1, m2) == <<MultRow(m1[1], m2), MultRow(m1[2], m2), MultRow(m1[3], m2)>>

mult_matrix_vector(m, v) == <<Dot(m[1], v), Dot(m[2], v), Dot(m[3], v)>>

\* result = identity; for m in chain: result = mult_matrix(result, m)
RECURSIVE FoldChain(_, _)
FoldChain(result, chain) ==
    IF chain = <<>> THEN result
    ELSE FoldChain(mult_matrix(result, Head(chain)), Tail(chain))

flip_matrix(w) ==
    FoldChain(identity_matrix, <<translate_matrix(<<w, 0>>), mirror_matrix(TRUE)>>)

flop_matrix(h) ==
    FoldChain(identity_matrix, <<translate_matrix(<<0, h>>), mirror_matrix(FALSE)>>)

\* a transpose that copies the matrix unchanged
transpose_matrix_copy(m) == <<m[1], m[2], m[3]>>

\* res[i][j] = m[j][i]
transpose_matrix(m) == <<Column(m, 1), Column(m, 2), Column(m, 3)>>

\* str(k) of a float of integer value
PyStr(k) == ToString(k) \o ".0"

RECURSIVE JoinComma(_)
JoinComma(l) ==
    IF l = <<>> THEN ""
    ELSE IF Len(l) = 1 THEN l[1]
    ELSE l[1] \o "," \o JoinComma(Tail(l))

\* the list l of matrix_to_csv: every row, entry by entry
StrRow(row) == <<PyStr(row[1]), PyStr(row[2]), PyStr(row[3])>>

FlattenStr(m) == StrRow(m[1]) \o StrRow(m[2]) \o StrRow(m[3])

matrix_to_csv(m) == JoinComma(FlattenStr(m))

\* calculate_matrix with scale and rotate exchanged
calculate_matrix_rotate_first(t, r, s, c) ==
    mult_matrix(mult_matrix(mult_matrix(mult_matrix(translate_matrix(t),
        translate_matrix(c)), rotate_matrix(r)), scale_matrix(s)),
        translate_matrix(<<-c[1], -c[2]>>))

calculate_matrix(t, r, s, c) ==
    LET c_inv == <<-c[1], -c[2]>>
        center == translate_matrix(c)
        center_inv == translate_matrix(c_inv)
        translate == translate_matrix(t)
        rotate == rotate_matrix(r)
        scale == scale_matrix(s)
        result1 == mult_matrix(translate, center)
        result2 == mult_matrix(result1, scale)
        result3 == mult_matrix(result2, rotate)
    IN  mult_matrix(result3, center_inv)

\* the local "matrix" of Transform.to_oiio_args
Transform_matrix(x) == calculate_matrix(x.translate, x.rotate, x.scale, x.center)

WarpFlag == "--warp:filter=cubic:recompute_roi=1"

Transform_to_oiio_args(x) ==
    LET matrix_xfm == mult_matrix(identity_matrix, Transform_matrix(x))
        matrix_tr == transpose_matrix(matrix_xfm)
        warp_cmd == matrix_to_csv(matrix_tr)
    IN  <<WarpFlag, warp_cmd>>

Crop_to_oiio_args(x) ==
    <<"--crop",
      ToString(x.box[1]) \o "," \o ToString(x.box[2]) \o "," \o ToString(x.box[3])
          \o "," \o ToString(x.box[4])>>

\* Mirror2.to_oiio_args() appending "--flip" before "--flop"
Mirror2_to_oiio_args_flip_first(x) ==
    (IF x.flip THEN <<"--flip">> ELSE <<>>) \o (IF x.flop THEN <<"--flop">> ELSE <<>>)

Mirror2_to_oiio_args(x) ==
    (IF x.flop THEN <<"--flop">> ELSE <<>>) \o (IF x.flip THEN <<"--flip">> ELSE <<>>)

CornerPin2D_to_oiio_args(x) == <<>>

\* ro.to_oiio_args()
to_oiio_args(ro) ==
    CASE ro.cls = "Transform" -> Transform_to_oiio_args(ro)
      [] ro.cls = "Crop" -> Crop_to_oiio_args(ro)
      [] ro.cls = "Mirror2" -> Mirror2_to_oiio_args(ro)
      [] ro.cls = "CornerPin2D" -> CornerPin2D_to_oiio_args(ro)

----------------------------------------------------------------------------
(* OIIORepositionProcessor *)

NoSize == -1

NoCall == [flip |-> FALSE, flop |-> FALSE, reverse_chain |-> FALSE, raised |-> "no call"]

\* list.reverse()
Reverse(l) == [i \in 1 .. Len(l) |-> l[Len(l) + 1 - i]]

\* the per-node matrices of tlist, in the order of tlist
NodeMatrices(tlist) == [i \in 1 .. Len(tlist) |-> Transform_matrix(tlist[i])]

\* get_matrix_chained that forgets tlist.reverse()
get_matrix_chained_forward(flip, flop, reverse_chain) ==
    FoldChain(identity_matrix,
        (IF flip THEN <<flip_matrix(source_width)>> ELSE <<>>)
        \o (IF flop THEN <<flop_matrix(source_height)>> ELSE <<>>)
        \o NodeMatrices(operators)
        \o (IF flop THEN <<flop_matrix(source_height)>> ELSE <<>>)
        \o (IF flip THEN <<flip_matrix(source_width)>> ELSE <<>>))

\* get_matrix_chained(flip, flop, reverse_chain): the matrix it returns
get_matrix_chained(flip, flop, reverse_chain) ==
    LET tlist == IF reverse_chain THEN Reverse(operators) ELSE operators
        chain == (IF flip THEN <<flip_matrix(source_width)>> ELSE <<>>)
                 \o (IF flop THEN <<flop_matrix(source_height)>> ELSE <<>>)
                 \o NodeMatrices(tlist)
                 \o (IF flop THEN <<flop_matrix(source_height)>> ELSE <<>>)
                 \o (IF flip THEN <<flip_matrix(source_width)>> ELSE <<>>)
    IN  FoldChain(identity_matrix, chain)

\* a None size reaches a float multiplication and raises TypeError
get_matrix_chained_raises(flip, flop) ==
    (flip /\ source_width = NoSize) \/ (flop /\ source_height = NoSize)

\* what a call ends with: the exception ("None" when it returned) and the value
Outcome(exc, value) == [raised |-> exc, returned |-> value]

Abs(a) == IF a < 0 THEN -a ELSE a

RECURSIVE GCD(_, _)
GCD(a, b) == IF b = 0 THEN a ELSE GCD(b, a % b)

\* the float a / b for b # 0, kept exact: the fraction in lowest terms with
\* a positive denominator
Frac(a, b) ==
    LET g == GCD(Abs(a), Abs(b))
        sign == IF b < 0 THEN -1 ELSE 1
    IN  [n |-> sign * (a \div g), d |-> sign * (b \div g)]

\* the corners matrix_to_cornerpin maps, in its order
Corners(w, h, origin_upperleft) ==
    IF origin_upperleft
    THEN << <<0, h, 1>>, <<w, h, 1>>, <<0, 0, 1>>, <<w, 0, 1>> >>
    ELSE << <<0, 0, 1>>, <<w, 0, 1>>, <<0, h, 1>>, <<w, h, 1>> >>

\* the perspective divide of the transformed corners, flattened
PinOf(transformed_corners) ==
    [k \in 1 .. 8 |->
        LET corner == transformed_corners[(k + 1) \div 2]
        IN  Frac(corner[IF k % 2 = 1 THEN 1 ELSE 2], corner[3])]

\* matrix_to_cornerpin that takes the upper-left corner order whatever the flag
matrix_to_cornerpin_upperleft_only(m, w, h, origin_upperleft) ==
    IF w = NoSize \/ h = NoSize THEN Outcome("TypeError", NoneObj)
    ELSE LET corners == Corners(w, h, TRUE)
             transformed_corners == [i \in 1 .. 4 |-> mult_matrix_vector(m, corners[i])]
         IN  IF \E i \in 1 .. 4 : transformed_corners[i][3] = 0
             THEN Outcome("ZeroDivisionError", NoneObj)
             ELSE Outcome("None", Lst(PinOf(transformed_corners)))

\* utils.matrix_to_cornerpin(m, w, h, origin_upperleft); a None size raises
\* TypeError in the multiplication, a zero third component
\* ZeroDivisionError in the divide
matrix_to_cornerpin(m, w, h, origin_upperleft) ==
    IF w = NoSize \/ h = NoSize THEN Outcome("TypeError", NoneObj)
    ELSE LET corners == Corners(w, h, origin_upperleft)
             transformed_corners == [i \in 1 .. 4 |-> mult_matrix_vector(m, corners[i])]
         IN  IF \E i \in 1 .. 4 : transformed_corners[i][3] = 0
             THEN Outcome("ZeroDivisionError", NoneObj)
             ELSE Outcome("None", Lst(PinOf(transformed_corners)))

\* OIIORepositionProcessor.get_cornerpin_data(matrix)
OIIORepositionProcessor_get_cornerpin_data(m) ==
    matrix_to_cornerpin(m, source_width, source_height, FALSE)

\* "not size": the size is None or 0
Falsy(size) == size = NoSize \/ size = 0

\* the area the source is fitted to, with int() of the float quotients:
\* src_aspect > dest_aspect is sw / sh > dw / dh
FittedArea(sw, sh, dw, dh) ==
    IF sw * dh > dw * sh
    THEN LET fitted_height == (sw * dh) \div dw
         IN  [width |-> sw, height |-> fitted_height,
              x |-> 0, y |-> (fitted_height - sh) \div 2]
    ELSE IF sw * dh < dw * sh
    THEN LET fitted_width == (sh * dw) \div dh
         IN  [width |-> fitted_width, height |-> sh,
              x |-> (fitted_width - sw) \div 2, y |-> 0]
    ELSE [width |-> sw, height |-> sh, x |-> 0, y |-> 0]

\* OIIORepositionProcessor.get_oiiotool_cmd(): the exception or the
\* argument list
OIIORepositionProcessor_get_oiiotool_cmd ==
    IF Falsy(source_width) \/ Falsy(source_height) \/ Falsy(dest_width) \/ Falsy(dest_height)
    THEN Outcome("ValueError", NoneObj)
    ELSE LET matrix_chained == get_matrix_chained(FALSE, TRUE, TRUE)
             matrix_tr == transpose_matrix(matrix_chained)
             warp_cmd == matrix_to_csv(matrix_tr)
             a == FittedArea(source_width, source_height, dest_width, dest_height)
             cropped_area == ToString(a.width) \o "x" \o ToString(a.height) \o "-"
                                 \o ToString(a.x) \o "-" \o ToString(a.y)
             dest_size == ToString(dest_width) \o "x" \o ToString(dest_height)
         IN  Outcome("None", Lst(<<WarpFlag, warp_cmd, "--crop", cropped_area,
                                   "--fullsize", cropped_area, "--resize", dest_size>>))

----------------------------------------------------------------------------
(* AYONHieroEffectsFileProcessor *)

\* a logging call: level and message argument
LogRecord(level, arg) == [level |-> level, arg |-> arg]

\* _sanitize_file_path trying the verbatim path before the target directory
_sanitize_file_path_verbatim_first(node_value, all_relative_files) ==
    LET fp == Path(node_value["file"])
    IN  IF fp \in existing
        THEN [node |-> [node_value EXCEPT !["file"] = as_posix(fp)], log |-> <<>>]
        ELSE IF target_dir_path # NoneObj
        THEN LET new_file_path == as_posix(JoinPath(target_dir_path, fp.name))
             IN  [node |-> [node_value EXCEPT !["file"] = new_file_path],
                  log |-> <<LogRecord("DEBUG", new_file_path)>>]
        ELSE IF fp.name \notin DOMAIN all_relative_files
        THEN [node |-> node_value, log |-> <<>>]
        ELSE LET relative_file == all_relative_files[fp.name]
             IN  [node |-> [node_value EXCEPT !["file"] = as_posix(resolve(relative_file))],
                  log |-> <<LogRecord("WARNING", as_posix(relative_file))>>]

\* _sanitize_file_path(node_value, all_relative_files): the node dict after
\* the call and the records it logs
_sanitize_file_path(node_value, all_relative_files) ==
    LET fp == Path(node_value["file"])
    IN  IF target_dir_path # NoneObj
        THEN LET new_file_path == as_posix(JoinPath(target_dir_path, fp.name))
             IN  [node |-> [node_value EXCEPT !["file"] = new_file_path],
                  log |-> <<LogRecord("DEBUG", new_file_path)>>]
        ELSE IF fp \in existing
        THEN [node |-> [node_value EXCEPT !["file"] = as_posix(fp)], log |-> <<>>]
        ELSE IF fp.name \notin DOMAIN all_relative_files
        THEN [node |-> node_value, log |-> <<>>]
        ELSE LET relative_file == all_relative_files[fp.name]
             IN  [node |-> [node_value EXCEPT !["file"] = as_posix(resolve(relative_file))],
                  log |-> <<LogRecord("WARNING", as_posix(relative_file))>>]

\* clear_operators() that forgets to reset the lists
clear_operators_keep == [color |-> _color_ops, repo |-> _repo_ops]

\* clear_operators(): the two lists afterwards
clear_operators == [color |-> <<>>, repo |-> <<>>]

\* isinstance(v, dict) for a value of the JSON object
IsDict(v) == "t" \notin DOMAIN v

\* an unstable sort: x goes before the elements of equal key
RECURSIVE InsertSorted_unstable(_, _)
InsertSorted_unstable(x, s) ==
    IF s = <<>> THEN <<x>>
    ELSE IF s[Len(s)].subTrackIndex < x.subTrackIndex
         THEN Append(s, x)
         ELSE Append(InsertSorted_unstable(x, SubSeq(s, 1, Len(s) - 1)), s[Len(s)])

\* list.sort(key=...) is stable: x goes after every element whose key is
\* not greater than its own
RECURSIVE InsertSorted(_, _)
InsertSorted(x, s) ==
    IF s = <<>> THEN <<x>>
    ELSE IF s[Len(s)].subTrackIndex <= x.subTrackIndex
         THEN Append(s, x)
         ELSE Append(InsertSorted(x, SubSeq(s, 1, Len(s) - 1)), s[Len(s)])

RECURSIVE SortBySubTrackIndex(_)
SortBySubTrackIndex(s) ==
    IF s = <<>> THEN <<>>
    ELSE InsertSorted(s[Len(s)], SortBySubTrackIndex(SubSeq(s, 1, Len(s) - 1)))

\* one iteration of the for loop of load(); st = [color, repo, log]
LoadOne(value, st, all_relative_files) ==
    LET class_name == value["class"]
    IN  IF class_name \notin _wrapper_class_members THEN st
        ELSE IF ~TruthyDict(value, "node") THEN st
        ELSE LET san == IF TruthyStr(value["node"], "file")
                        THEN _sanitize_file_path(value["node"], all_relative_files)
                        ELSE [node |-> value["node"], log |-> <<>>]
                 class_obj == from_node_data(class_name, san.node)
                 log == st.log \o san.log
             IN  IF IsColorOperator(class_obj)
                 THEN [color |-> Append(st.color, class_obj), repo |-> st.repo, log |-> log]
                 ELSE IF IsRepositionOperator(class_obj)
                 THEN [color |-> st.color, repo |-> Append(st.repo, class_obj), log |-> log]
                 ELSE [color |-> st.color, repo |-> st.repo, log |-> log]

RECURSIVE LoadLoop(_, _, _)
LoadLoop(all_ops, st, all_relative_files) ==
    IF all_ops = <<>> THEN st
    ELSE LoadLoop(Tail(all_ops), LoadOne(Head(all_ops), st, all_relative_files),
                  all_relative_files)

\* load() that opens and parses the file before it clears the lists
load_parse_first ==
    IF doc_state = "missing"
    THEN [color |-> _color_ops, repo |-> _repo_ops, log |-> <<>>,
          raised |-> "FileNotFoundError"]
    ELSE IF doc_state = "malformed"
    THEN [color |-> _color_ops, repo |-> _repo_ops, log |-> <<>>,
          raised |-> "JSONDecodeError"]
    ELSE LET st == LoadLoop(SortBySubTrackIndex(SelectSeq(doc, IsDict)),
                            [color |-> <<>>, repo |-> <<>>, log |-> <<>>],
                            all_relative_files_of(rglob_parent))
         IN  [color |-> st.color, repo |-> st.repo, log |-> st.log, raised |-> "None"]

\* load(): the lists, the exception and the log records it ends with
load ==
    LET cleared == clear_operators
        all_relative_files == all_relative_files_of(rglob_parent)
    IN  IF doc_state = "missing"
        THEN [color |-> cleared.color, repo |-> cleared.repo, log |-> <<>>,
              raised |-> "FileNotFoundError"]
        ELSE IF doc_state = "malformed"
        THEN [color |-> cleared.color, repo |-> cleared.repo, log |-> <<>>,
              raised |-> "JSONDecodeError"]
        ELSE LET all_ops == SortBySubTrackIndex(SelectSeq(doc, IsDict))
                 st == LoadLoop(all_ops,
                                [color |-> cleared.color, repo |-> cleared.repo, log |-> <<>>],
                                all_relative_files)
             IN  [color |-> st.color, repo |-> st.repo, log |-> st.log, raised |-> "None"]

\* the property ocio_objects: ops.append(op.to_ocio_obj()) appends the list
\* each operator returns, as one element
ocio_objects == [i \in 1 .. Len(_color_ops) |-> Lst(to_ocio_obj(_color_ops[i]))]

\* the first loop of get_oiiotool_cmd, with its two isinstance tests
RECURSIVE ColorArgs(_)
ColorArgs(oos) ==
    IF oos = <<>> THEN <<>>
    ELSE LET oo == Head(oos)
             file_args == IF oo.t = "FileTransform"
                          THEN <<"--ociofiletransform", as_posix(resolve(Path(oo.src)))>>
                          ELSE <<>>
             cs_args == IF oo.t = "ColorSpaceTransform"
                        THEN <<"--colorconvert", oo.src, oo.dst>>
                        ELSE <<>>
         IN  file_args \o cs_args \o ColorArgs(Tail(oos))

\* the second loop of get_oiiotool_cmd
RECURSIVE RepoArgs(_)
RepoArgs(ros) ==
    IF ros = <<>> THEN <<>> ELSE to_oiio_args(Head(ros)) \o RepoArgs(Tail(ros))

get_oiiotool_cmd == ColorArgs(ocio_objects) \o RepoArgs(_repo_ops)

----------------------------------------------------------------------------
(* OCIOConfigFileGenerator *)

\* the generator instances a behaviour follows
GenIds == {1, 2}

NoGenCall == [op |-> "none", g |-> 0, args |-> NoneObj, raised |-> "None", returned |-> NoneObj]

\* the files and directories on disk besides the configs the generator writes
GenFiles == {"/cfg/a.ocio", "/cfg/b.ocio", "/p/luts/a.cube", "/p/luts/b.cube", "/q/c.cc"}

GenDirs == {"/", "/cfg", "/cfg/luts", "/p", "/p/luts", "/q", "/out"}

\* Path.is_file() and Path.is_dir(); write_config creates the destination
\* file and its parent directory
is_file(p) == as_posix(resolve(p)) \in GenFiles \cup DOMAIN disk

is_dir(p) ==
    as_posix(resolve(p)) \in GenDirs \cup {as_posix(Parent(Path(d))) : d \in DOMAIN disk}

\* a colour space, a look and a view of an OCIO config
ColorSpace(name, family, transform) ==
    [name |-> name, family |-> family, transform |-> transform]

Look(name, processSpace, transform) ==
    [name |-> name, processSpace |-> processSpace, transform |-> transform]

View(name, colorspace, looks) == [name |-> name, colorspace |-> colorspace, looks |-> looks]

\* the base configs on disk: /cfg/a.ocio lists the search paths "luts" (a
\* directory beside the config) and "old" (not on disk), /cfg/b.ocio only "old"
BaseConfig(path) ==
    [description |-> "base",
     colorspaces |-> <<ColorSpace("ACES - ACEScg", "", <<>>), ColorSpace("lin", "", <<>>),
                       ColorSpace("sRGB", "", <<>>)>>,
     looks |-> <<>>,
     displays |-> ("ACES" :> <<View("sRGB", "sRGB", ""), View("Raw", "lin", "")>>)
                      @@ ("sRGB" :> <<View("Raw", "lin", "")>>),
     active_displays |-> "ACES,sRGB",
     active_views |-> IF path = "/cfg/a.ocio" THEN "sRGB,Raw" ELSE "Raw",
     env |-> <<>>,
     search_paths |-> IF path = "/cfg/a.ocio" THEN <<"luts", "old">> ELSE <<"old">>]

\* OCIO.Config.CreateFromFile(filepath): a new config object on every call
CreateFromFile(path) == BaseConfig(path)

\* adding a named item to a config replaces the item of the same name
AddNamed(items, item) ==
    IF \E i \in 1 .. Len(items) : items[i].name = item.name
    THEN [i \in 1 .. Len(items) |-> IF items[i].name = item.name THEN item ELSE items[i]]
    ELSE Append(items, item)

addColorSpace(cfg, cs) == [cfg EXCEPT !.colorspaces = AddNamed(@, cs)]

addLook(cfg, look) == [cfg EXCEPT !.looks = AddNamed(@, look)]

addDisplayView(cfg, display, view, colorspace, looks) ==
    LET v == View(view, colorspace, looks)
    IN  IF display \in DOMAIN cfg.displays
        THEN [cfg EXCEPT !.displays[display] = AddNamed(@, v)]
        ELSE [cfg EXCEPT !.displays = (display :> <<v>>) @@ @]

\* an environment variable of a config: [name, value]
EnvVar(k, v) == [name |-> k, value |-> v]

addEnvironmentVar(cfg, k, v) == [cfg EXCEPT !.env = AddNamed(@, EnvVar(k, v))]

RECURSIVE addEnvironmentVars(_, _)
addEnvironmentVars(cfg, vs) ==
    IF vs = <<>> THEN cfg
    ELSE addEnvironmentVars(addEnvironmentVar(cfg, Head(vs).name, Head(vs).value), Tail(vs))

\* setSearchPath replaces the search paths, addSearchPath appends one
setSearchPath(cfg, path) == [cfg EXCEPT !.search_paths = <<path>>]

addSearchPath(cfg, path) == [cfg EXCEPT !.search_paths = Append(@, path)]

RECURSIVE addSearchPaths(_, _)
addSearchPaths(cfg, paths) ==
    IF paths = <<>> THEN cfg ELSE addSearchPaths(addSearchPath(cfg, Head(paths)), Tail(paths))

ColorSpaceNames(cfg) == {cfg.colorspaces[i].name : i \in 1 .. Len(cfg.colorspaces)}

\* Config.validate() raises when a view or a look names a colour space the
\* config does not hold
validate_raises(cfg) ==
    \/ \E d \in DOMAIN cfg.displays : \E i \in 1 .. Len(cfg.displays[d]) :
           cfg.displays[d][i].colorspace \notin ColorSpaceNames(cfg)
    \/ \E i \in 1 .. Len(cfg.looks) : cfg.looks[i].processSpace \notin ColorSpaceNames(cfg)

\* the first field of a comma separated string: s.split(",")[0]
SplitFirst(s) == LET i == Find(s, ",") IN IF i = 0 THEN s ELSE SubSeq(s, 1, i - 1)

\* a dict argument, its items in insertion order
Dict(items) == [t |-> "dict", v |-> items]

\* truthiness of an optional list or dict argument: None and empty are false
Truthy(arg) == arg # NoneObj /\ arg.v # <<>>

\* an attribute the instance has assigned itself, and one it has not, which
\* reads and mutates the object bound to the class attribute
Owned(val) == [own |-> TRUE, val |-> val]

ClassAttr == [own |-> FALSE, val |-> <<>>]

\* self._views and self._vars as the instance g sees them
ViewsOf(g) == IF gen[g]._views.own THEN gen[g]._views.val ELSE cls_views

VarsOf(g) == IF gen[g]._vars.own THEN gen[g]._vars.val ELSE cls_vars

\* the loop of _swap_variables without its break: the last variable whose
\* value occurs in the text is the one substituted
RECURSIVE SwapLoop_without_break(_, _, _)
SwapLoop_without_break(vs, text, new_text) ==
    IF vs = <<>> THEN new_text
    ELSE LET v == str_replace(Head(vs).value, "\\", "/")
             t == str_replace(text, "\\", "/")
         IN  IF str_in(v, t)
             THEN SwapLoop_without_break(Tail(vs), t, str_replace(t, v, "$" \o Head(vs).name))
             ELSE SwapLoop_without_break(Tail(vs), t, new_text)

\* the loop of _swap_variables over the items of self._vars; text is the
\* loop's "text", new_text what is returned when no value matches
RECURSIVE SwapLoop(_, _, _)
SwapLoop(vs, text, new_text) ==
    IF vs = <<>> THEN new_text
    ELSE LET v == str_replace(Head(vs).value, "\\", "/")
             t == str_replace(text, "\\", "/")
         IN  IF str_in(v, t)
             THEN str_replace(t, v, "$" \o Head(vs).name)
             ELSE SwapLoop(Tail(vs), t, new_text)

_swap_variables(vs, text) == SwapLoop(vs, text, text)

\* _swap_variables applied to every element of a list
SwapAll(vs, texts) == [i \in 1 .. Len(texts) |-> _swap_variables(vs, texts[i])]

\* dict.update(kwargs): a key already there keeps its place
RECURSIVE DictUpdate(_, _)
DictUpdate(d, items) ==
    IF items = <<>> THEN d ELSE DictUpdate(AddNamed(d, Head(items)), Tail(items))

\* __init__(context, ..., search_paths): the instance, or the exception
OCIOConfigFileGenerator__init__(a) ==
    LET working_space == IF a.working_space = "None" THEN "ACES - ACEScg"
                         ELSE a.working_space
        target_view_space == IF a.target_view_space = "None" THEN working_space
                             ELSE a.target_view_space
        _views == IF Truthy(a.views) THEN Owned(a.views.v) ELSE ClassAttr
        _operators == IF Truthy(a.operators) THEN a.operators.v ELSE <<>>
        _vars == IF Truthy(a.environment_variables)
                 THEN Owned(DictUpdate(<<>>, a.environment_variables.v))
                 ELSE ClassAttr
        vs == IF _vars.own THEN _vars.val ELSE cls_vars
        _ocio_search_paths == IF Truthy(a.search_paths) THEN SwapAll(vs, a.search_paths.v)
                              ELSE <<>>
    IN  IF ~is_file(Path(a.config_path))
        THEN [raised |-> "FileNotFoundError", self |-> NoneObj]
        ELSE [raised |-> "None",
              self |-> [context |-> a.context,
                        family |-> IF a.family = "None" THEN "LabLib" ELSE a.family,
                        working_space |-> working_space,
                        target_view_space |-> target_view_space,
                        _views |-> _views,
                        _operators |-> _operators,
                        _config_path |-> Path(a.config_path),
                        staging_dir |-> a.staging_dir,
                        _description |-> "LabLib OCIO Config",
                        _vars |-> _vars,
                        _ocio_search_paths |-> _ocio_search_paths,
                        _ocio_config |-> NoneObj,
                        _ocio_config_name |-> "config.ocio",
                        _dest_path |-> ""]]

\* hasattr(ocio_transform, "getSrc")
HasGetSrc(tr) == tr.t \in {"FileTransform", "ColorSpaceTransform"}

\* the list "paths" of _get_absolute_search_paths: the search paths of the
\* loaded config, then getSrc() of every operator that has one
RECURSIVE OperatorSrcs(_)
OperatorSrcs(ops) ==
    IF ops = <<>> THEN <<>>
    ELSE (IF HasGetSrc(Head(ops)) THEN <<Head(ops).src>> ELSE <<>>) \o OperatorSrcs(Tail(ops))

\* the list real_paths of _sanitize_search_paths
RECURSIVE RealPaths(_, _)
RealPaths(config_dir, paths) ==
    IF paths = <<>> THEN <<>>
    ELSE LET computed_path == Div(config_dir, Head(paths))
             here == IF is_file(computed_path)
                     THEN <<as_posix(resolve(Parent(computed_path)))>>
                     ELSE IF is_dir(computed_path)
                     THEN <<as_posix(resolve(computed_path))>>
                     ELSE <<>>
         IN  here \o RealPaths(config_dir, Tail(paths))

\* real_paths for the instance self and the loaded config
real_paths_of(self, cfg) ==
    RealPaths(Parent(self._config_path), cfg.search_paths \o OperatorSrcs(self._operators))

Range(l) == {l[i] : i \in 1 .. Len(l)}

\* list(set(real_paths)): the distinct elements in the order the set yields
\* them, which the string hashing of the run decides
SetOrders(S) ==
    {o \in [1 .. Cardinality(S) -> S] : \A i, j \in 1 .. Cardinality(S) : o[i] = o[j] => i = j}

\* _change_src_paths_to_names: the operators afterwards
_change_src_paths_to_names(ops, vs) ==
    [i \in 1 .. Len(ops) |->
        IF ~HasGetSrc(ops[i]) THEN ops[i]
        ELSE LET tr == IF ops[i].t = "FileTransform" /\ ops[i].cccId # ""
                       THEN [ops[i] EXCEPT !.cccId = _swap_variables(vs, @)]
                       ELSE ops[i]
             IN  [tr EXCEPT !.src = _swap_variables(vs, Path(@).name)]]

\* load_config_from_file keeping the config object of the previous call
load_config_from_file_cached(self) ==
    IF self._ocio_config # NoneObj THEN self._ocio_config
    ELSE CreateFromFile(as_posix(resolve(self._config_path)))

\* load_config_from_file(self._config_path.resolve().as_posix())
load_config_from_file(self) == CreateFromFile(as_posix(resolve(self._config_path)))

\* process_config with the display view registered on the working space
process_config_view_on_working_space(self, vs, views, cfg) ==
    LET group_transform == self._operators
        look_transform == ColorSpaceTransform(self.working_space, self.context)
        colorspace == ColorSpace(self.context, self.family, group_transform)
        look == Look(self.context, self.working_space, look_transform)
        c1 == [cfg EXCEPT !.description = self._description]
        c2 == addLook(addColorSpace(c1, colorspace), look)
        c3 == addDisplayView(c2, SplitFirst(c2.active_displays), self.context,
                             self.working_space, self.context)
        views_value == IF views = <<>> THEN c3.active_views ELSE JoinComma(views)
        c4 == [c3 EXCEPT !.active_views = self.context \o "," \o views_value]
        c5 == addEnvironmentVars(c4, vs)
    IN  IF self._ocio_search_paths = <<>>
        THEN [cfg |-> c5, raised |-> "IndexError"]
        ELSE LET c6 == addSearchPaths(setSearchPath(c5, self._ocio_search_paths[1]),
                                      Tail(self._ocio_search_paths))
             IN  [cfg |-> c6, raised |-> IF validate_raises(c6) THEN "Exception" ELSE "None"]

\* process_config(): the config object afterwards and the exception raised;
\* self._ocio_search_paths[0] raises IndexError on an empty list
process_config(self, vs, views, cfg) ==
    LET group_transform == self._operators
        look_transform == ColorSpaceTransform(self.working_space, self.context)
        colorspace == ColorSpace(self.context, self.family, group_transform)
        look == Look(self.context, self.working_space, look_transform)
        c1 == [cfg EXCEPT !.description = self._description]
        c2 == addLook(addColorSpace(c1, colorspace), look)
        c3 == addDisplayView(c2, SplitFirst(c2.active_displays), self.context,
                             self.target_view_space, self.context)
        views_value == IF views = <<>> THEN c3.active_views ELSE JoinComma(views)
        c4 == [c3 EXCEPT !.active_views = self.context \o "," \o views_value]
        c5 == addEnvironmentVars(c4, vs)
    IN  IF self._ocio_search_paths = <<>>
        THEN [cfg |-> c5, raised |-> "IndexError"]
        ELSE LET c6 == addSearchPaths(setSearchPath(c5, self._ocio_search_paths[1]),
                                      Tail(self._ocio_search_paths))
             IN  [cfg |-> c6, raised |-> IF validate_raises(c6) THEN "Exception" ELSE "None"]

\* the argument dest of create_config after its first two statements
resolved_dest(self, dest) ==
    as_posix(resolve(IF dest = "None" \/ dest = ""
                     THEN Path(self.staging_dir \o "/" \o self._ocio_config_name)
                     ELSE Path(dest)))

\* create_config that writes the file and records the destination before
\* the config is processed and validated
create_config_write_first(self, vs, views, dest, order) ==
    LET d == resolved_dest(self, dest)
        cfg == load_config_from_file(self)
        s1 == [self EXCEPT !._ocio_search_paths = @ \o SwapAll(vs, order),
                           !._operators = _change_src_paths_to_names(@, vs)]
        r == process_config(s1, vs, views, cfg)
    IN  [self |-> [s1 EXCEPT !._ocio_config = r.cfg, !._dest_path = d],
         written |-> (d :> r.cfg),
         raised |-> r.raised,
         returned |-> IF r.raised = "None" THEN Str(d) ELSE NoneObj]

\* create_config(dest): the instance afterwards, the file written (a
\* function of one path, or none), the exception and the returned path.
\* order is list(set(real_paths)) of _sanitize_search_paths.
create_config(self, vs, views, dest, order) ==
    LET d == resolved_dest(self, dest)
        cfg == load_config_from_file(self)
        s1 == [self EXCEPT !._ocio_search_paths = @ \o SwapAll(vs, order),
                           !._operators = _change_src_paths_to_names(@, vs)]
        r == process_config(s1, vs, views, cfg)
    IN  IF r.raised # "None"
        THEN [self |-> [s1 EXCEPT !._ocio_config = r.cfg],
              written |-> <<>>,
              raised |-> r.raised,
              returned |-> NoneObj]
        ELSE [self |-> [s1 EXCEPT !._ocio_config = r.cfg, !._dest_path = d],
              written |-> (d :> r.cfg),
              raised |-> "None",
              returned |-> Str(d)]

\* get_oiiotool_cmd() naming the target view space as the look's destination
OCIOConfigFileGenerator_get_oiiotool_cmd_to_view_space(self) ==
    <<"--colorconfig",
      self._dest_path,
      "--ociolook:from=\"" \o self.working_space \o "\"" \o ":to=\""
          \o self.target_view_space \o "\"",
      self.context>>

\* OCIOConfigFileGenerator.get_oiiotool_cmd()
OCIOConfigFileGenerator_get_oiiotool_cmd(self) ==
    <<"--colorconfig",
      self._dest_path,
      "--ociolook:from=\"" \o self.working_space \o "\"" \o ":to=\""
          \o self.working_space \o "\"",
      self.context>>

\* get_config_path()
get_config_path(self) == self._dest_path

----------------------------------------------------------------------------
(* AYONOCIOLookProduct and AYONOCIOLookFileProcessor.  A look item is a    *)
(* dict; "file" is the key the processor fills in.                         *)

\* the local current_working_colorspace before the loop binds it (no
\* colour space has this name)
Unbound == "<unbound>"

\* the loop over the look items of to_ocio_obj and of
\* _process_look_file_to_color_operators: the transforms appended so far,
\* the local current_working_colorspace, and the exception that ended it
RECURSIVE LookLoop(_, _, _, _, _)
LookLoop(items, index, current, look_working_colorspace, all_transformations) ==
    IF items = <<>>
    THEN [chain |-> all_transformations, current |-> current, raised |-> "None"]
    ELSE LET item == Head(items)
         IN  IF "file" \notin DOMAIN item
             THEN [chain |-> all_transformations, current |-> current, raised |-> "KeyError"]
             ELSE LET lut_in_colorspace == item["input_colorspace"].colorspace
                      lut_out_colorspace == item["output_colorspace"].colorspace
                      cur == IF index = 0 THEN look_working_colorspace ELSE current
                      conv == IF cur # lut_in_colorspace
                              THEN <<ColorSpaceTransform(cur, lut_in_colorspace)>>
                              ELSE <<>>
                      file == FileTransform(as_posix(Path(item["file"])), "",
                                            get_direction(item["direction"]),
                                            get_interpolation(item["interpolation"]))
                  IN  LookLoop(Tail(items), index + 1, lut_out_colorspace,
                               look_working_colorspace,
                               all_transformations \o conv \o <<file>>)

\* the chain with the conversion back to the working space that follows the
\* loop; reading current_working_colorspace while it is unbound raises
LookChain_without_return(items, look_working_colorspace) ==
    LET r == LookLoop(items, 0, Unbound, look_working_colorspace, <<>>)
    IN  IF r.raised # "None" THEN r
        ELSE IF r.current = Unbound THEN [r EXCEPT !.raised = "UnboundLocalError"]
        ELSE r

LookChain(items, look_working_colorspace) ==
    LET r == LookLoop(items, 0, Unbound, look_working_colorspace, <<>>)
    IN  IF r.raised # "None" THEN r
        ELSE IF r.current = Unbound THEN [r EXCEPT !.raised = "UnboundLocalError"]
        ELSE IF r.current # look_working_colorspace
        THEN [r EXCEPT !.chain = Append(@, ColorSpaceTransform(r.current,
                                                                look_working_colorspace))]
        ELSE r

\* AYONOCIOLookProduct.to_ocio_obj() of the product decoded from data
AYONOCIOLookProduct_to_ocio_obj(self) ==
    IF "colorspace" \notin DOMAIN self.ocioLookWorkingSpace
    THEN Outcome("KeyError", NoneObj)
    ELSE LET r == LookChain(self.ocioLookItems, self.ocioLookWorkingSpace["colorspace"])
         IN  IF r.raised # "None" THEN Outcome(r.raised, NoneObj)
             ELSE Outcome("None", Lst(r.chain))

\* str.endswith
EndsWith(s, suffix) ==
    Len(s) >= Len(suffix) /\ SubSeq(s, Len(s) - Len(suffix) + 1, Len(s)) = suffix

\* Path.stem: the name without its last suffix
RECURSIVE Stem(_)
Stem(name) ==
    IF Find(name, ".") = 0 THEN name
    ELSE LET rest == SubSeq(name, Find(name, ".") + 1, Len(name))
         IN  IF Find(rest, ".") = 0 THEN SubSeq(name, 1, Find(name, ".") - 1)
             ELSE SubSeq(name, 1, Find(name, ".")) \o Stem(rest)

\* the first file of all_relative_files whose name ends with the extension
RECURSIVE FirstEndingWith(_, _)
FirstEndingWith(files, extension) ==
    IF files = <<>> THEN NoneObj
    ELSE IF EndsWith(Head(files).name, extension) THEN Head(files)
    ELSE FirstEndingWith(Tail(files), extension)

\* AYONOCIOLookFileProcessor._sanitize_file_path(repre_data,
\* all_relative_files): the item afterwards, the records logged, the
\* exception.  The closing log.info reads repre_data["file"].
AYONOCIOLookFileProcessor__sanitize_file_path(repre_data, target_path, files) ==
    IF TruthyStr(repre_data, "file")
    THEN [item |-> repre_data, log |-> <<>>, raised |-> "None"]
    ELSE LET found == FirstEndingWith(files, repre_data["ext"])
             item == IF target_path # NoneObj
                     THEN ("file" :> (Stem(target_path.name) \o "." \o repre_data["ext"]))
                              @@ repre_data
                     ELSE IF found # NoneObj
                     THEN ("file" :> as_posix(resolve(found))) @@ repre_data
                     ELSE repre_data
             warning == IF ~TruthyStr(item, "file")
                        THEN <<LogRecord("WARNING",
                                         repre_data["name"] \o "." \o repre_data["ext"])>>
                        ELSE <<>>
         IN  IF "file" \notin DOMAIN item
             THEN [item |-> item, log |-> warning, raised |-> "KeyError"]
             ELSE [item |-> item,
                   log |-> warning \o <<LogRecord("INFO", item["file"])>>,
                   raised |-> "None"]

\* the loop of load() over ops_data["data"]["ocioLookItems"]
RECURSIVE SanitizeLoop(_, _, _, _, _)
SanitizeLoop(items, target_path, files, done, log) ==
    IF items = <<>> THEN [items |-> done, log |-> log, raised |-> "None"]
    ELSE LET r == AYONOCIOLookFileProcessor__sanitize_file_path(Head(items), target_path, files)
         IN  IF r.raised # "None"
             THEN [items |-> done, log |-> log \o r.log, raised |-> r.raised]
             ELSE SanitizeLoop(Tail(items), target_path, files,
                               Append(done, r.item), log \o r.log)

\* load() that takes the version as it is in the document, without the
\* default of ops_data.get("version", 1)
AYONOCIOLookFileProcessor_load_version_required(ops_data, target_path, files) ==
    IF "version" \notin DOMAIN ops_data \/ ops_data["version"] # Num(1)
    THEN [ops |-> <<>>, log |-> <<>>, raised |-> "ValueError"]
    ELSE LET data == ops_data["data"]
             s == SanitizeLoop(data["ocioLookItems"], target_path, files, <<>>, <<>>)
         IN  IF s.raised # "None" THEN [ops |-> <<>>, log |-> s.log, raised |-> s.raised]
             ELSE LET r == LookChain(s.items, data["ocioLookWorkingSpace"]["colorspace"])
                  IN  [ops |-> r.chain, log |-> s.log, raised |-> r.raised]

\* AYONOCIOLookFileProcessor.load(): _operators afterwards, the records
\* logged and the exception.  ops_data is the parsed look file, files the
\* values of all_relative_files in their order.
AYONOCIOLookFileProcessor_load(ops_data, target_path, files) ==
    IF Get(ops_data, "version", Num(1)) # Num(1)
    THEN [ops |-> <<>>, log |-> <<>>, raised |-> "ValueError"]
    ELSE LET data == ops_data["data"]
             s == SanitizeLoop(data["ocioLookItems"], target_path, files, <<>>, <<>>)
         IN  IF s.raised # "None" THEN [ops |-> <<>>, log |-> s.log, raised |-> s.raised]
             ELSE LET r == LookChain(s.items, data["ocioLookWorkingSpace"]["colorspace"])
                  IN  [ops |-> r.chain, log |-> s.log, raised |-> r.raised]

----------------------------------------------------------------------------
(* The effects documents the processor is run on.  Every object of a       *)
(* document carries "class" and "subTrackIndex"; "node" may be empty.      *)

SubTrackIndices == 0 .. MaxSubTrackIndex

Entry(class_name, i, node) == [class |-> class_name, subTrackIndex |-> i, node |-> node]

DocValues ==
    {Entry("OCIOFileTransform", i, [file |-> "/mnt/luts//a.cube"]) : i \in SubTrackIndices}
        \cup {Entry("OCIOColorSpace", i, [in_colorspace |-> "scene_linear"]) : i \in SubTrackIndices}
        \cup {Entry("Transform", i, [scale |-> Num(2)]) : i \in SubTrackIndices}
        \cup {Entry("OCIOColorSpace", 0, <<>>),
              Entry("RepositionOperator", 0, [flip |-> TRUE]),
              Entry("ValidClass", 0, <<>>),
              Num(1)}

RECURSIVE SeqsUpTo(_, _)
SeqsUpTo(S, n) ==
    IF n = 0 THEN {<<>>}
    ELSE LET shorter == SeqsUpTo(S, n - 1)
         IN  shorter \cup {Append(s, x) : s \in {t \in shorter : Len(t) = n - 1}, x \in S}

Docs == SeqsUpTo(DocValues, MaxEntries)

----------------------------------------------------------------------------
(* The processor as a state machine.  Init is __init__ after its attribute *)
(* assignments, before its call of load().                                 *)

TransformIdle ==
    /\ node_data = NoneObj
    /\ xform = NoneObj
    /\ matrix = <<>>
    /\ oiio_args = <<>>

\* OIIORepositionProcessor(): __post_init__ sets _raw_matrix = [[]]
ChainIdle ==
    /\ operators = <<>>
    /\ source_width = NoSize
    /\ source_height = NoSize
    /\ _raw_matrix = << <<>> >>
    /\ chain_call = NoCall

ColorIdle ==
    /\ color_data = NoneObj
    /\ color_op = NoneObj
    /\ ocio_obj = NoneObj

\* no generator instance; the class attributes _views = [] and _vars = {}
GenIdle ==
    /\ gen = [g \in GenIds |-> NoneObj]
    /\ cls_views = <<>>
    /\ cls_vars = <<>>
    /\ disk = <<>>
    /\ gen_call = NoGenCall

\* no look processor, no look file
NoLookCall == [op |-> "none", raised |-> "None", log |-> <<>>, returned |-> NoneObj]

LookIdle ==
    /\ look_doc = NoneObj
    /\ look_target = NoneObj
    /\ look_files = {}
    /\ look_ops = NoneObj
    /\ look_call = NoLookCall

\* no call yet; input is the object a behaviour of the emitters follows
NoToolCall ==
    [op |-> "none", input |-> NoneObj, args |-> NoneObj, raised |-> "None",
     returned |-> NoneObj]

\* OIIORepositionProcessor(): dest_width and dest_height default to None
ToolIdle ==
    /\ dest_width = NoSize
    /\ dest_height = NoSize
    /\ tool_call = NoToolCall

\* no call_cmd() under way
NoCmdRun ==
    [pc |-> "idle", timeout |-> NoneObj, retries |-> 0, retry |-> 0, outcomes |-> <<>>,
     out |-> NoneObj, returned |-> NoneObj]

CmdIdle == cmd_run = NoCmdRun

LateIdle == LookIdle /\ ToolIdle /\ CmdIdle

FxIdle ==
    /\ doc = <<>>
    /\ doc_state = "ok"
    /\ existing = {}
    /\ target_dir_path = NoneObj
    /\ constructed = FALSE
    /\ _color_ops = <<>>
    /\ _repo_ops = <<>>
    /\ raised = "None"
    /\ log_records = <<>>
    /\ last_step = "none"
    /\ returned = NoneObj

Init ==
    /\ doc \in Docs
    /\ doc_state = "ok"
    /\ existing \in SUBSET LutFiles
    /\ target_dir_path \in {NoneObj, TargetDir}
    /\ constructed = FALSE
    /\ _color_ops = <<>>
    /\ _repo_ops = <<>>
    /\ raised = "None"
    /\ log_records = <<>>
    /\ last_step = "none"
    /\ returned = NoneObj
    /\ TransformIdle
    /\ ChainIdle
    /\ ColorIdle
    /\ GenIdle
    /\ LateIdle

\* a load() directly after a load() is a reload
LoadStep == IF last_step \in {"load", "reload"} THEN "reload" ELSE "load"

Loaded == last_step \in {"load", "reload"} /\ raised = "None"

\* __init__: self.load(); an exception leaves no processor behind
Construct ==
    /\ ~constructed
    /\ LET r == load
       IN  /\ constructed' = (r.raised = "None")
           /\ _color_ops' = r.color
           /\ _repo_ops' = r.repo
           /\ raised' = r.raised
           /\ log_records' = r.log
    /\ last_step' = LoadStep
    /\ returned' = NoneObj
    /\ UNCHANGED <<doc, doc_state, existing, target_dir_path>>
    /\ UNCHANGED repo_vars
    /\ UNCHANGED ext_vars

Load ==
    /\ constructed
    /\ LET r == load
       IN  /\ _color_ops' = r.color
           /\ _repo_ops' = r.repo
           /\ raised' = r.raised
           /\ log_records' = r.log
    /\ last_step' = LoadStep
    /\ returned' = NoneObj
    /\ UNCHANGED <<doc, doc_state, existing, target_dir_path, constructed>>
    /\ UNCHANGED repo_vars
    /\ UNCHANGED ext_vars

ClearOperators ==
    /\ constructed
    /\ _color_ops' = clear_operators.color
    /\ _repo_ops' = clear_operators.repo
    /\ raised' = "None"
    /\ log_records' = <<>>
    /\ last_step' = "clear_operators"
    /\ returned' = NoneObj
    /\ UNCHANGED <<doc, doc_state, existing, target_dir_path, constructed>>
    /\ UNCHANGED repo_vars
    /\ UNCHANGED ext_vars

\* get_oiiotool_cmd()
GetOiiotoolCmd ==
    /\ constructed
    /\ returned' = Lst(get_oiiotool_cmd)
    /\ raised' = "None"
    /\ log_records' = <<>>
    /\ last_step' = "get_oiiotool_cmd"
    /\ UNCHANGED <<doc, doc_state, existing, target_dir_path, constructed,
                   _color_ops, _repo_ops>>
    /\ UNCHANGED repo_vars
    /\ UNCHANGED ext_vars

\* the effects file is removed, truncated or written back
WriteEffectFile(s) ==
    /\ s # doc_state
    /\ doc_state' = s
    /\ last_step' = "disk"
    /\ returned' = NoneObj
    /\ UNCHANGED <<doc, existing, target_dir_path, constructed, _color_ops,
                   _repo_ops, raised, log_records>>
    /\ UNCHANGED repo_vars
    /\ UNCHANGED ext_vars

Next ==
    \/ Construct
    \/ Load
    \/ ClearOperators
    \/ GetOiiotoolCmd
    \/ \E s \in {"ok", "missing", "malformed"} : WriteEffectFile(s)

Spec == Init /\ [][Next]_vars

----------------------------------------------------------------------------
(* Transform as a state machine: construction, decoding and emission *)

Coords == -MaxCoord .. MaxCoord

Vectors == {<<x, y>> : x \in Coords, y \in Coords}

ScaleVectors == {<<x, y>> : x \in 1 .. MaxScale, y \in 1 .. MaxScale}

Rotations == {0, 90, 180, 270, -90}

\* the node dicts given to Transform.from_node_data
TransformNodes ==
    {[translate |-> t, rotate |-> r, scale |-> Lst(sc), center |-> c] :
        t \in Vectors, r \in Rotations, sc \in ScaleVectors, c \in Vectors}
    \cup {[scale |-> Num(k)] : k \in 1 .. MaxScale}
    \cup {[scale |-> Num(k), center |-> c] : k \in 1 .. MaxScale, c \in Vectors}
    \cup {[invert |-> FALSE], [translate |-> <<1, 0>>]}

InitTransform == FxIdle /\ ChainIdle /\ TransformIdle /\ ColorIdle /\ GenIdle /\ LateIdle

\* Transform(): a behaviour follows one Transform object
TransformNew ==
    /\ xform = NoneObj
    /\ xform' = Transform_default
    /\ node_data' = NoneObj
    /\ matrix' = <<>>
    /\ oiio_args' = <<>>
    /\ UNCHANGED fx_vars
    /\ UNCHANGED chain_vars
    /\ UNCHANGED ext_vars

\* Transform.from_node_data(data)
TransformFromNodeData(data) ==
    /\ xform = NoneObj
    /\ xform' = Transform_from_node_data(data)
    /\ node_data' = data
    /\ matrix' = <<>>
    /\ oiio_args' = <<>>
    /\ UNCHANGED fx_vars
    /\ UNCHANGED chain_vars
    /\ UNCHANGED ext_vars

\* xform.to_oiio_args()
TransformToOiioArgs ==
    /\ xform # NoneObj
    /\ matrix' = Transform_matrix(xform)
    /\ oiio_args' = Transform_to_oiio_args(xform)
    /\ UNCHANGED <<node_data, xform>>
    /\ UNCHANGED fx_vars
    /\ UNCHANGED chain_vars
    /\ UNCHANGED ext_vars

NextTransform ==
    \/ TransformNew
    \/ \E data \in (IF xform = NoneObj THEN TransformNodes ELSE {}) :
          TransformFromNodeData(data)
    \/ TransformToOiioArgs

SpecTransform == InitTransform /\ [][NextTransform]_vars

----------------------------------------------------------------------------
(* OIIORepositionProcessor as a state machine *)

\* the Transform operators handed to add_operators
ChainTransforms ==
    {Transform_from_node_data(n) :
        n \in {[translate |-> <<1, 0>>, rotate |-> 0, scale |-> Lst(<<1, 1>>), center |-> <<0, 0>>],
               [translate |-> <<0, 0>>, rotate |-> 0, scale |-> Num(2), center |-> <<0, 0>>],
               [translate |-> <<0, 0>>, rotate |-> 90, scale |-> Lst(<<1, 1>>), center |-> <<1, 0>>]}}

\* the argument lists of add_operators
ChainArgs == SeqsUpTo(ChainTransforms, MaxOps) \ {<<>>}

InitChain == FxIdle /\ TransformIdle /\ ChainIdle /\ ColorIdle /\ GenIdle /\ LateIdle

\* add_operators(*args): nested lists are flattened in order
AddOperators(args) ==
    /\ args # <<>>
    /\ Len(operators) + Len(args) <= MaxOps
    /\ operators' = operators \o args
    /\ chain_call' = NoCall
    /\ UNCHANGED <<source_width, source_height, _raw_matrix>>
    /\ UNCHANGED fx_vars
    /\ UNCHANGED xf_vars
    /\ UNCHANGED ext_vars

SetSourceSize(width, height) ==
    /\ source_width' = width
    /\ source_height' = height
    /\ chain_call' = NoCall
    /\ UNCHANGED <<operators, _raw_matrix>>
    /\ UNCHANGED fx_vars
    /\ UNCHANGED xf_vars
    /\ UNCHANGED ext_vars

GetMatrixChained(flip, flop, reverse_chain) ==
    /\ IF get_matrix_chained_raises(flip, flop)
       THEN /\ chain_call' = [flip |-> flip, flop |-> flop,
                              reverse_chain |-> reverse_chain, raised |-> "TypeError"]
            /\ UNCHANGED _raw_matrix
       ELSE /\ chain_call' = [flip |-> flip, flop |-> flop,
                              reverse_chain |-> reverse_chain, raised |-> "None"]
            /\ _raw_matrix' = get_matrix_chained(flip, flop, reverse_chain)
    /\ UNCHANGED <<operators, source_width, source_height>>
    /\ UNCHANGED fx_vars
    /\ UNCHANGED xf_vars
    /\ UNCHANGED ext_vars

NextChain ==
    \/ \E args \in (IF Len(operators) < MaxOps THEN ChainArgs ELSE {}) :
          AddOperators(args)
    \/ \E w \in 1 .. MaxSize, h \in 1 .. MaxSize : SetSourceSize(w, h)
    \/ \E flip \in BOOLEAN, flop \in BOOLEAN, reverse_chain \in BOOLEAN :
          GetMatrixChained(flip, flop, reverse_chain)

SpecChain == InitChain /\ [][NextChain]_vars

----------------------------------------------------------------------------
(* A colour operator as a state machine: decoding and emission *)

\* a dict with the key k bound to a value of S, or without the key
Opt(k, S) == {<<>>} \cup {k :> v : v \in S}

\* the node dicts given to OCIOCDLTransform.from_node_data
CDLNodes ==
    {f @@ d @@ i @@ c @@ sl :
        f \in Opt("file", {"", "/mnt/luts//a.cube"}),
        d \in Opt("direction", {Str("inverse"), Str("forward"), Str("Inverse"),
                                Num(0), Num(1)}),
        i \in Opt("interpolation", {"nearest", "bogus"}),
        c \in Opt("cccid", {"cc1"}),
        sl \in Opt("slope", {<<2, 2, 2>>})}

InitColor == FxIdle /\ TransformIdle /\ ChainIdle /\ ColorIdle /\ GenIdle /\ LateIdle

\* OCIOCDLTransform.from_node_data(data)
CDLFromNodeData(data) ==
    /\ color_op = NoneObj
    /\ color_data' = data
    /\ color_op' = OCIOCDLTransform_from_node_data(data)
    /\ ocio_obj' = NoneObj
    /\ UNCHANGED fx_vars
    /\ UNCHANGED repo_vars
    /\ UNCHANGED gen_vars
    /\ UNCHANGED late_vars

\* color_op.to_ocio_obj()
ToOcioObj ==
    /\ color_op # NoneObj
    /\ ocio_obj' = Lst(to_ocio_obj(color_op))
    /\ UNCHANGED <<color_data, color_op>>
    /\ UNCHANGED fx_vars
    /\ UNCHANGED repo_vars
    /\ UNCHANGED gen_vars
    /\ UNCHANGED late_vars

NextColor ==
    \/ \E data \in (IF color_op = NoneObj THEN CDLNodes ELSE {}) :
          CDLFromNodeData(data)
    \/ ToOcioObj

SpecColor == InitColor /\ [][NextColor]_vars

----------------------------------------------------------------------------
(* OCIOConfigFileGenerator as a state machine *)

\* the OCIO transforms handed to the generator as operators
OpLutA == FileTransform("/p/luts/a.cube", "", "TRANSFORM_DIR_FORWARD", "INTERP_LINEAR")

OpLutB == FileTransform("/p/luts/b.cube", "", "TRANSFORM_DIR_FORWARD", "INTERP_LINEAR")

OpCC == FileTransform("/q/c.cc", "sh010", "TRANSFORM_DIR_FORWARD", "INTERP_LINEAR")

OpGone == FileTransform("/gone/x.cube", "", "TRANSFORM_DIR_FORWARD", "INTERP_LINEAR")

OpColorSpace == ColorSpaceTransform("lin", "sRGB")

OpCDL == CDLTransform(<<1, 1, 1>>, <<0, 0, 0>>, <<1, 1, 1>>, 1, "TRANSFORM_DIR_FORWARD")

GenArg(working_space, target_view_space, views, ops, config_path, env, search_paths) ==
    [context |-> "sh010",
     family |-> "None",
     working_space |-> working_space,
     target_view_space |-> target_view_space,
     views |-> views,
     operators |-> ops,
     config_path |-> config_path,
     staging_dir |-> "/out",
     environment_variables |-> env,
     search_paths |-> search_paths]

\* the constructor arguments of a generator followed on its own: every
\* combination of operators, base config, variables and search paths with
\* the default spaces and views, every combination of spaces and views with
\* one choice of the rest, and a base config that is not on disk
GenArgs ==
    {GenArg("None", "None", NoneObj, ops, cp, env, paths) :
        ops \in {NoneObj, Lst(<<OpLutA, OpLutB>>), Lst(<<OpColorSpace, OpCC>>),
                 Lst(<<OpGone, OpCDL>>)},
        cp \in {"/cfg/a.ocio", "/cfg/b.ocio"},
        env \in {NoneObj, Dict(<<EnvVar("ROOT", "/p")>>),
                 Dict(<<EnvVar("CONTEXT", "sh010"), EnvVar("ROOT", "/p"),
                        EnvVar("LUTS", "/p/luts")>>)},
        paths \in {NoneObj, Lst(<<"/p/luts">>)}}
    \cup {GenArg(sp[1], sp[2], vw, Lst(<<OpLutA, OpLutB>>), "/cfg/a.ocio",
                 Dict(<<EnvVar("ROOT", "/p")>>), NoneObj) :
            sp \in {<<"None", "None">>, <<"None", "sRGB">>, <<"lin", "None">>,
                    <<"lin", "sRGB">>, <<"None", "nope">>},
            vw \in {NoneObj, Lst(<<"v1", "v2">>)}}
    \cup {GenArg("None", "None", NoneObj, NoneObj, "/cfg/none.ocio", NoneObj, NoneObj)}

\* the constructor arguments of two generators followed side by side
SharedArgs ==
    {GenArg("None", "None", vw, NoneObj, "/cfg/a.ocio", env, NoneObj) :
        vw \in {NoneObj, Lst(<<"v1">>)},
        env \in {NoneObj, Dict(<<EnvVar("ROOT", "/p")>>)}}

InitGen == FxIdle /\ TransformIdle /\ ChainIdle /\ ColorIdle /\ GenIdle /\ LateIdle

GenCall(op, g, args, exc, value) ==
    [op |-> op, g |-> g, args |-> args, raised |-> exc, returned |-> value]

\* OCIOConfigFileGenerator(...): an exception leaves no instance behind
GenConstruct(g, a) ==
    /\ gen[g] = NoneObj
    /\ LET r == OCIOConfigFileGenerator__init__(a)
       IN  /\ gen' = [gen EXCEPT ![g] = r.self]
           /\ gen_call' = GenCall("__init__", g, a, r.raised, NoneObj)
    /\ UNCHANGED <<cls_views, cls_vars, disk>>
    /\ UNCHANGED fx_vars
    /\ UNCHANGED repo_vars
    /\ UNCHANGED color_vars
    /\ UNCHANGED late_vars

\* append_views(*names): list.append on the list self._views is bound to
AppendViews(g, names) ==
    /\ gen[g] # NoneObj
    /\ Len(ViewsOf(g)) + Len(names) <= MaxViews
    /\ IF gen[g]._views.own
       THEN /\ gen' = [gen EXCEPT ![g]._views.val = @ \o names]
            /\ UNCHANGED cls_views
       ELSE /\ cls_views' = cls_views \o names
            /\ UNCHANGED gen
    /\ gen_call' = GenCall("append_views", g, Lst(names), "None", NoneObj)
    /\ UNCHANGED <<cls_vars, disk>>
    /\ UNCHANGED fx_vars
    /\ UNCHANGED repo_vars
    /\ UNCHANGED color_vars
    /\ UNCHANGED late_vars

\* append_vars(**items): dict.update on the dict self._vars is bound to
AppendVars(g, items) ==
    /\ gen[g] # NoneObj
    /\ IF gen[g]._vars.own
       THEN /\ gen' = [gen EXCEPT ![g]._vars.val = DictUpdate(@, items)]
            /\ UNCHANGED cls_vars
       ELSE /\ cls_vars' = DictUpdate(cls_vars, items)
            /\ UNCHANGED gen
    /\ gen_call' = GenCall("append_vars", g, Dict(items), "None", NoneObj)
    /\ UNCHANGED <<cls_views, disk>>
    /\ UNCHANGED fx_vars
    /\ UNCHANGED repo_vars
    /\ UNCHANGED color_vars
    /\ UNCHANGED late_vars

\* append_operators(*ops): __init__ has bound self._operators to a list of
\* the instance
AppendOperators(g, ops) ==
    /\ gen[g] # NoneObj
    /\ Len(gen[g]._operators) + Len(ops) <= MaxOps
    /\ gen' = [gen EXCEPT ![g]._operators = @ \o ops]
    /\ gen_call' = GenCall("append_operators", g, Lst(ops), "None", NoneObj)
    /\ UNCHANGED <<cls_views, cls_vars, disk>>
    /\ UNCHANGED fx_vars
    /\ UNCHANGED repo_vars
    /\ UNCHANGED color_vars
    /\ UNCHANGED late_vars

\* append_search_paths(*paths)
AppendSearchPaths(g, paths) ==
    /\ gen[g] # NoneObj
    /\ Len(gen[g]._ocio_search_paths) + Len(paths) <= MaxSearchPaths
    /\ gen' = [gen EXCEPT ![g]._ocio_search_paths = @ \o SwapAll(VarsOf(g), paths)]
    /\ gen_call' = GenCall("append_search_paths", g, Lst(paths), "None", NoneObj)
    /\ UNCHANGED <<cls_views, cls_vars, disk>>
    /\ UNCHANGED fx_vars
    /\ UNCHANGED repo_vars
    /\ UNCHANGED color_vars
    /\ UNCHANGED late_vars

\* create_config(dest)
CreateConfig(g, dest) ==
    /\ gen[g] # NoneObj
    /\ LET found == Range(real_paths_of(gen[g], load_config_from_file(gen[g])))
       IN  /\ Len(gen[g]._ocio_search_paths) + Cardinality(found) <= MaxSearchPaths
           /\ \E order \in SetOrders(found) :
                 LET r == create_config(gen[g], VarsOf(g), ViewsOf(g), dest, order)
                 IN  /\ gen' = [gen EXCEPT ![g] = r.self]
                     /\ disk' = r.written @@ disk
                     /\ gen_call' = GenCall("create_config", g, Str(dest), r.raised, r.returned)
    /\ UNCHANGED <<cls_views, cls_vars>>
    /\ UNCHANGED fx_vars
    /\ UNCHANGED repo_vars
    /\ UNCHANGED color_vars
    /\ UNCHANGED late_vars

\* get_oiiotool_cmd() of the generator
GenGetOiiotoolCmd(g) ==
    /\ gen[g] # NoneObj
    /\ gen_call' = GenCall("get_oiiotool_cmd", g, NoneObj, "None",
                           Lst(OCIOConfigFileGenerator_get_oiiotool_cmd(gen[g])))
    /\ UNCHANGED <<gen, cls_views, cls_vars, disk>>
    /\ UNCHANGED fx_vars
    /\ UNCHANGED repo_vars
    /\ UNCHANGED color_vars
    /\ UNCHANGED late_vars

\* one generator: views, operators and search paths reach it through the
\* constructor
NextGen ==
    \/ \E a \in (IF gen[1] = NoneObj THEN GenArgs ELSE {}) : GenConstruct(1, a)
    \/ \E names \in {<<"v3">>} : AppendViews(1, names)
    \/ \E items \in {<<EnvVar("ROOT", "/p")>>} : AppendVars(1, items)
    \/ \E dest \in {"None", "b/shot.ocio"} : CreateConfig(1, dest)
    \/ GenGetOiiotoolCmd(1)

SpecGen == InitGen /\ [][NextGen]_vars

\* two generators whose calls interleave: every operation is made on the
\* first while the second is constructed and appends views and variables
NextShared ==
    \/ \E g \in GenIds : \E a \in (IF gen[g] = NoneObj THEN SharedArgs ELSE {}) :
          GenConstruct(g, a)
    \/ \E g \in GenIds, names \in {<<"v3", "v4">>} : AppendViews(g, names)
    \/ \E g \in GenIds, items \in {<<EnvVar("Q", "/q")>>} : AppendVars(g, items)
    \/ \E ops \in {<<OpCC, OpLutA>>} : AppendOperators(1, ops)
    \/ \E paths \in {<<"/q", "/p/luts">>} : AppendSearchPaths(1, paths)
    \/ CreateConfig(1, "None")

SpecShared == InitGen /\ [][NextShared]_vars

----------------------------------------------------------------------------
(* The look product and the look file processor as a state machine *)

LookWorkingSpace == [colorspace |-> "ACES - ACEScg"]

LookItem(input, output, direction) ==
    [name |-> "grade",
     ext |-> "cube",
     input_colorspace |-> [colorspace |-> input],
     output_colorspace |-> [colorspace |-> output],
     direction |-> Str(direction),
     interpolation |-> "tetrahedral"]

\* an item as the publisher writes it (no "file"), with a file, and one
\* with an empty file
LookItemValues ==
    LET bases == {LookItem("ACES - ACEScg", "ACES - ACEScg", "forward"),
                  LookItem("Output - sRGB", "ACES - ACEScc", "forward"),
                  LookItem("Output - Rec.709", "ACES - ACEScc", "inverse"),
                  LookItem("ACES - ACEScc", "ACES - ACEScg", "forward")}
    IN  bases
        \cup {("file" :> "path/to/lut1.cube") @@ b : b \in bases}
        \cup {("file" :> "") @@ LookItem("Output - sRGB", "ACES - ACEScc", "forward")}

LookData(items) == [ocioLookItems |-> items, ocioLookWorkingSpace |-> LookWorkingSpace]

\* the "version" values a look file is written with; NoneObj: no such key
LookVersions == {NoneObj, Num(1), Num(2)}

LookDoc(version, data) ==
    IF version = NoneObj THEN [data |-> data]
    ELSE ("version" :> version) @@ [data |-> data]

LookDocs ==
    {LookDoc(v, LookData(items)) : v \in LookVersions,
                                   items \in SeqsUpTo(LookItemValues, MaxItems)}

LookFilePath == Path("shot/look/look.json")

LookTargetPaths == {NoneObj, Path("published/grade_v001.cube")}

\* the files below the directory of the look file, as rglob yields them
LookFileLists == {<<LookFilePath>>, <<LookFilePath, Path("shot/look/luts/lut2.cube")>>}

\* what the look file may be overwritten with: another version value, or
\* the same document without its items
LookRewrites(d) ==
    {LookDoc(v, d["data"]) : v \in LookVersions}
        \cup {[d EXCEPT !["data"] = LookData(<<>>)]}

InitLook ==
    /\ FxIdle /\ TransformIdle /\ ChainIdle /\ ColorIdle /\ GenIdle /\ ToolIdle /\ CmdIdle
    /\ look_doc \in LookDocs
    /\ look_target \in LookTargetPaths
    /\ look_files \in LookFileLists
    /\ look_ops = NoneObj
    /\ look_call = NoLookCall

LookCall(op, exc, log, value) ==
    [op |-> op, raised |-> exc, log |-> log, returned |-> value]

LookIdleRest ==
    /\ UNCHANGED fx_vars
    /\ UNCHANGED repo_vars
    /\ UNCHANGED color_vars
    /\ UNCHANGED gen_vars
    /\ UNCHANGED tool_vars
    /\ UNCHANGED cmd_run

\* AYONOCIOLookFileProcessor(filepath, target_path): __init__ calls load();
\* an exception leaves no processor behind
LookConstruct ==
    /\ look_ops = NoneObj
    /\ LET r == AYONOCIOLookFileProcessor_load(look_doc, look_target, look_files)
       IN  /\ look_ops' = IF r.raised = "None" THEN Lst(r.ops) ELSE NoneObj
           /\ look_call' = LookCall("__init__", r.raised, r.log, NoneObj)
    /\ UNCHANGED <<look_doc, look_target, look_files>>
    /\ LookIdleRest

\* load() on the processor
LookLoad ==
    /\ look_ops # NoneObj
    /\ LET r == AYONOCIOLookFileProcessor_load(look_doc, look_target, look_files)
       IN  /\ look_ops' = Lst(r.ops)
           /\ look_call' = LookCall("load", r.raised, r.log, NoneObj)
    /\ UNCHANGED <<look_doc, look_target, look_files>>
    /\ LookIdleRest

\* the look file is overwritten
LookWriteFile(d) ==
    /\ look_doc' = d
    /\ look_call' = LookCall("disk", "None", <<>>, NoneObj)
    /\ UNCHANGED <<look_target, look_files, look_ops>>
    /\ LookIdleRest

\* AYONOCIOLookProduct.from_node_data(data).to_ocio_obj() on the data of
\* the look file
LookToOcioObj ==
    /\ LET r == AYONOCIOLookProduct_to_ocio_obj(
                    AYONOCIOLookProduct_from_node_data(look_doc["data"]))
       IN  look_call' = LookCall("to_ocio_obj", r.raised, <<>>, r.returned)
    /\ UNCHANGED <<look_doc, look_target, look_files, look_ops>>
    /\ LookIdleRest

NextLook ==
    \/ LookConstruct
    \/ LookLoad
    \/ \E d \in LookRewrites(look_doc) : LookWriteFile(d)
    \/ LookToOcioObj

SpecLook == InitLook /\ [][NextLook]_vars

----------------------------------------------------------------------------
(* The reposition emitters and OIIORepositionProcessor.get_oiiotool_cmd as *)
(* a state machine.  A behaviour either applies one emitter to an input    *)
(* drawn at the start, or follows one processor.                           *)

\* the node dicts given to Mirror2.from_node_data
MirrorNodes ==
    {[flop |-> a, flip |-> b] : a \in BOOLEAN, b \in BOOLEAN}
        \cup {[flop |-> a] : a \in BOOLEAN}
        \cup {[flip |-> b] : b \in BOOLEAN}
        \cup {[class |-> "Mirror2"]}

\* the matrices given to matrix_to_cornerpin: identity, translation,
\* scale, rotation by 90 degrees, two with a perspective row, and one that
\* sends a corner to infinity
CornerpinMatrices ==
    {identity_matrix,
     << <<1, 0, 1>>, <<0, 1, 2>>, <<0, 0, 1>> >>,
     << <<2, 0, 0>>, <<0, 2, 0>>, <<0, 0, 1>> >>,
     << <<0, -1, 0>>, <<1, 0, 0>>, <<0, 0, 1>> >>,
     << <<1, 0, 0>>, <<0, 1, 0>>, <<1, 0, 1>> >>,
     << <<1, 0, 0>>, <<0, 1, 0>>, <<0, 0, 2>> >>,
     << <<1, 0, 0>>, <<0, 1, 0>>, <<1, 0, 0>> >>}

\* the items of self._vars and the texts given to _swap_variables: a
\* directory under a value, one with a value inside it, one with a value
\* twice, one with none, and a file name
SwapVars ==
    {<<>>,
     <<EnvVar("ROOT", "/p")>>,
     <<EnvVar("CONTEXT", "sh010"), EnvVar("ROOT", "/p"), EnvVar("LUTS", "/p/luts")>>,
     <<EnvVar("LUTS", "/p/luts"), EnvVar("ROOT", "/p")>>}

SwapTexts == {"/p/luts", "/q/p/x", "/p/a/p/b", "/cfg/luts", "sh010_grade.cube"}

ToolInputs ==
    {[kind |-> "Mirror2", data |-> d] : d \in MirrorNodes}
        \cup {[kind |-> "swap", vs |-> vs, text |-> t] : vs \in SwapVars, t \in SwapTexts}
        \cup {[kind |-> "cornerpin", m |-> m, w |-> w, h |-> h, origin_upperleft |-> o] :
                 m \in CornerpinMatrices, w \in 1 .. MaxSize, h \in 1 .. MaxSize,
                 o \in BOOLEAN}

\* the operators a processor is constructed with
ToolOperators == {<<>>} \cup {<<t>> : t \in ChainTransforms}

InitTool ==
    /\ FxIdle /\ TransformIdle /\ ColorIdle /\ GenIdle /\ LookIdle /\ CmdIdle
    /\ operators \in ToolOperators
    /\ source_width = NoSize
    /\ source_height = NoSize
    /\ _raw_matrix = << <<>> >>
    /\ chain_call = NoCall
    /\ dest_width = NoSize
    /\ dest_height = NoSize
    /\ tool_call \in {NoToolCall} \cup {[NoToolCall EXCEPT !.input = x] : x \in ToolInputs}

ToolCall(op, args, r) ==
    [op |-> op, input |-> tool_call.input, args |-> args, raised |-> r.raised,
     returned |-> r.returned]

ToolIdleRest ==
    /\ UNCHANGED fx_vars
    /\ UNCHANGED xf_vars
    /\ UNCHANGED color_vars
    /\ UNCHANGED gen_vars
    /\ UNCHANGED look_vars
    /\ UNCHANGED cmd_run

\* Mirror2.from_node_data(data).to_oiio_args()
MirrorToOiioArgs ==
    /\ tool_call.input # NoneObj
    /\ tool_call.input.kind = "Mirror2"
    /\ LET x == Mirror2_from_node_data(tool_call.input.data)
       IN  tool_call' = ToolCall("Mirror2.to_oiio_args", x,
                                 Outcome("None", Lst(Mirror2_to_oiio_args(x))))
    /\ UNCHANGED <<operators, source_width, source_height, _raw_matrix, chain_call,
                   dest_width, dest_height>>
    /\ ToolIdleRest

\* utils.matrix_to_cornerpin(m, w, h, origin_upperleft)
MatrixToCornerpin ==
    /\ tool_call.input # NoneObj
    /\ tool_call.input.kind = "cornerpin"
    /\ LET x == tool_call.input
       IN  tool_call' = ToolCall("matrix_to_cornerpin", x,
                                 matrix_to_cornerpin(x.m, x.w, x.h, x.origin_upperleft))
    /\ UNCHANGED <<operators, source_width, source_height, _raw_matrix, chain_call,
                   dest_width, dest_height>>
    /\ ToolIdleRest

\* OCIOConfigFileGenerator._swap_variables(text) with self._vars = vs
SwapVariables ==
    /\ tool_call.input # NoneObj
    /\ tool_call.input.kind = "swap"
    /\ LET x == tool_call.input
       IN  tool_call' = ToolCall("_swap_variables", x,
                                 Outcome("None", Str(_swap_variables(x.vs, x.text))))
    /\ UNCHANGED <<operators, source_width, source_height, _raw_matrix, chain_call,
                   dest_width, dest_height>>
    /\ ToolIdleRest

\* what a call on the processor is made on
ToolSelf ==
    [operators |-> operators, source_width |-> source_width,
     source_height |-> source_height, dest_width |-> dest_width,
     dest_height |-> dest_height]

\* set_source_size(width, height)
ToolSetSourceSize(width, height) ==
    /\ tool_call.input = NoneObj
    /\ source_width' = width
    /\ source_height' = height
    /\ tool_call' = ToolCall("set_source_size", NoneObj, Outcome("None", NoneObj))
    /\ UNCHANGED <<operators, _raw_matrix, chain_call, dest_width, dest_height>>
    /\ ToolIdleRest

\* set_destination_size(width, height)
SetDestinationSize(width, height) ==
    /\ tool_call.input = NoneObj
    /\ dest_width' = width
    /\ dest_height' = height
    /\ tool_call' = ToolCall("set_destination_size", NoneObj, Outcome("None", NoneObj))
    /\ UNCHANGED <<operators, source_width, source_height, _raw_matrix, chain_call>>
    /\ ToolIdleRest

\* get_cornerpin_data(matrix)
GetCornerpinData(m) ==
    /\ tool_call.input = NoneObj
    /\ tool_call' = ToolCall("get_cornerpin_data", [self |-> ToolSelf, matrix |-> m],
                             OIIORepositionProcessor_get_cornerpin_data(m))
    /\ UNCHANGED <<operators, source_width, source_height, _raw_matrix, chain_call,
                   dest_width, dest_height>>
    /\ ToolIdleRest

\* get_oiiotool_cmd(); its get_matrix_chained() stores the matrix
RepoGetOiiotoolCmd ==
    /\ tool_call.input = NoneObj
    /\ LET r == OIIORepositionProcessor_get_oiiotool_cmd
       IN  /\ tool_call' = ToolCall("get_oiiotool_cmd", ToolSelf, r)
           /\ _raw_matrix' = IF r.raised = "None"
                             THEN get_matrix_chained(FALSE, TRUE, TRUE)
                             ELSE _raw_matrix
    /\ UNCHANGED <<operators, source_width, source_height, chain_call,
                   dest_width, dest_height>>
    /\ ToolIdleRest

NextTool ==
    \/ MirrorToOiioArgs
    \/ MatrixToCornerpin
    \/ SwapVariables
    \/ \E w \in 0 .. MaxSize, h \in 0 .. MaxSize : ToolSetSourceSize(w, h)
    \/ \E w \in 0 .. MaxSize, h \in 0 .. MaxSize : SetDestinationSize(w, h)
    \/ \E m \in CornerpinMatrices \cup (IF _raw_matrix = << <<>> >> THEN {} ELSE {_raw_matrix}) :
          GetCornerpinData(m)
    \/ RepoGetOiiotoolCmd

SpecTool == InitTool /\ [][NextTool]_vars

----------------------------------------------------------------------------
(* utils.call_cmd as a process.  cmd_run.pc is its position: "idle"        *)
(* before the call, "for" at the head of the loop, "communicate" while an  *)
(* attempt is running, "done" after the return.  outcomes has one entry    *)
(* for every attempt started.                                              *)

\* what the command of the k-th attempt prints
OutputOf(k) == Str("output of attempt " \o ToString(k))

InitCmd ==
    /\ FxIdle /\ TransformIdle /\ ChainIdle /\ ColorIdle /\ GenIdle /\ LookIdle /\ ToolIdle
    /\ cmd_run = NoCmdRun

CmdIdleRest ==
    /\ UNCHANGED fx_vars
    /\ UNCHANGED repo_vars
    /\ UNCHANGED color_vars
    /\ UNCHANGED gen_vars
    /\ UNCHANGED look_vars
    /\ UNCHANGED tool_vars

\* call_cmd(cmd, timeout, retries): out, err, proc = None, None, None
CallCmd(timeout, retries) ==
    /\ cmd_run.pc \in {"idle", "done"}
    /\ cmd_run' = [NoCmdRun EXCEPT !.pc = "for", !.timeout = timeout, !.retries = retries]
    /\ CmdIdleRest

\* the loop takes the next retry of range(retries + 1) and Popen starts
\* the command
CmdPopen ==
    /\ cmd_run.pc = "for"
    /\ cmd_run.retry < cmd_run.retries + 1
    /\ cmd_run' = [cmd_run EXCEPT !.pc = "communicate",
                                  !.outcomes = Append(@, "running")]
    /\ CmdIdleRest

\* proc.communicate(timeout) returns: out is bound and the loop goes on
CmdCompleted ==
    /\ cmd_run.pc = "communicate"
    /\ cmd_run' = [cmd_run EXCEPT !.pc = "for",
                                  !.retry = @ + 1,
                                  !.outcomes[Len(cmd_run.outcomes)] = "completed",
                                  !.out = OutputOf(Len(cmd_run.outcomes))]
    /\ CmdIdleRest

\* proc.communicate(timeout) raises TimeoutExpired: the process is killed
\* and the loop continues; out keeps its value
CmdTimeoutExpired ==
    /\ cmd_run.pc = "communicate"
    /\ cmd_run.timeout # NoneObj
    /\ cmd_run' = [cmd_run EXCEPT !.pc = "for",
                                  !.retry = @ + 1,
                                  !.outcomes[Len(cmd_run.outcomes)] = "timeout"]
    /\ CmdIdleRest

\* the range is exhausted: return out, err
CmdReturn ==
    /\ cmd_run.pc = "for"
    /\ cmd_run.retry = cmd_run.retries + 1
    /\ cmd_run' = [cmd_run EXCEPT !.pc = "done", !.returned = cmd_run.out]
    /\ CmdIdleRest

NextCmd ==
    \/ \E timeout \in {NoneObj, Num(3)}, retries \in 0 .. MaxRetries : CallCmd(timeout, retries)
    \/ CmdPopen
    \/ CmdCompleted
    \/ CmdTimeoutExpired
    \/ CmdReturn

SpecCmd == InitCmd /\ [][NextCmd]_vars

----------------------------------------------------------------------------
(* Properties of AYONHieroEffectsFileProcessor *)

\* the object-valued entries of the document, in document order
ObjectEntries == SelectSeq(doc, IsDict)

\* the entries of sub-track index k, in document order
EntriesAt(k) == SelectSeq(ObjectEntries, LAMBDA v : v.subTrackIndex = k)

\* the entries in ascending sub-track index, equal indices in document order
RECURSIVE AscendingFrom(_)
AscendingFrom(k) ==
    IF k > MaxSubTrackIndex THEN <<>> ELSE EntriesAt(k) \o AscendingFrom(k + 1)

HasNode(v) == "node" \in DOMAIN v /\ v.node # <<>>

\* the operator an entry decodes to, its file reference resolved
DecodeEntry(v) ==
    from_node_data(v.class,
        IF TruthyStr(v.node, "file")
        THEN _sanitize_file_path(v.node, all_relative_files_of(rglob_parent)).node
        ELSE v.node)

DecodeAll(s) == [i \in 1 .. Len(s) |-> DecodeEntry(s[i])]

\* C1 as stated: after load(), color_ops is exactly the colour-class entries
\* and repo_ops exactly the reposition-class entries, each in stable
\* ascending subTrackIndex order.
C1_OrderAllEntries ==
    Loaded =>
        /\ _color_ops = DecodeAll(SelectSeq(AscendingFrom(0),
                                            LAMBDA v : v.class \in ColorClasses))
        /\ _repo_ops = DecodeAll(SelectSeq(AscendingFrom(0),
                                           LAMBDA v : v.class \in RepositionClasses))

\* C1 amended: after load(), color_ops is exactly the colour-class entries
\* that carry a non-empty node, and repo_ops exactly the reposition-class
\* entries that carry a non-empty node, each in stable ascending
\* subTrackIndex order (equal indices keep document order).
C1_OrderNodeEntries ==
    Loaded =>
        /\ _color_ops = DecodeAll(SelectSeq(AscendingFrom(0),
                            LAMBDA v : v.class \in ColorClasses /\ HasNode(v)))
        /\ _repo_ops = DecodeAll(SelectSeq(AscendingFrom(0),
                            LAMBDA v : v.class \in RepositionClasses /\ HasNode(v)))

\* two colour entries written in descending index order come out swapped
C1_Witness ==
    /\ Loaded
    /\ Len(doc) = 2
    /\ IsDict(doc[1]) /\ IsDict(doc[2])
    /\ doc[1].class = "OCIOColorSpace" /\ doc[2].class = "OCIOFileTransform"
    /\ doc[1].subTrackIndex > doc[2].subTrackIndex
    /\ Len(_color_ops) = 2
    /\ _color_ops[1].cls = "OCIOFileTransform"

CountEntries(Test(_)) ==
    Cardinality({i \in DOMAIN doc : IsDict(doc[i]) /\ Test(doc[i])})

\* C5 as stated: load() does not raise and decodes exactly one operator for
\* every object-valued entry whose class is a known operator class, whatever
\* its node (the empty dict included).
C5_OnePerKnownClass ==
    (last_step \in {"load", "reload"} /\ doc_state = "ok") =>
        /\ raised = "None"
        /\ Len(_color_ops) + Len(_repo_ops)
             = CountEntries(LAMBDA v : v.class \in _wrapper_class_members)

\* C5 amended: load() does not raise on an unknown class, and decodes exactly
\* one operator, appended to exactly one list, for every object-valued entry
\* whose class is a concrete operator class and whose node is a non-empty
\* dict; entries with an unknown class, an abstract base class or an empty
\* node are skipped.
C5_OnePerDecodableEntry ==
    (last_step \in {"load", "reload"} /\ doc_state = "ok") =>
        /\ raised = "None"
        /\ Len(_color_ops)
             = CountEntries(LAMBDA v : v.class \in ColorClasses /\ HasNode(v))
        /\ Len(_repo_ops)
             = CountEntries(LAMBDA v : v.class \in RepositionClasses /\ HasNode(v))

\* a document with an unknown class and a decodable entry has been loaded
C5_Witness ==
    /\ Loaded
    /\ Len(doc) = 2
    /\ IsDict(doc[1]) /\ doc[1].class = "ValidClass"
    /\ IsDict(doc[2]) /\ doc[2].class = "Transform"
    /\ Len(_repo_ops) = 1 /\ _color_ops = <<>>

\* C6: a load() of a missing or malformed effects file raises
\* FileNotFoundError or JSONDecodeError, and both lists are empty afterwards.
C6_FailedLoadLeavesEmpty ==
    (last_step \in {"load", "reload"} /\ doc_state # "ok") =>
        /\ raised = (IF doc_state = "missing" THEN "FileNotFoundError"
                                              ELSE "JSONDecodeError")
        /\ _color_ops = <<>>
        /\ _repo_ops = <<>>

\* a constructed processor, whose first load held a Transform, has failed to
\* reload a file that became malformed
C6_Witness ==
    /\ constructed
    /\ doc = <<Entry("Transform", 0, [scale |-> Num(2)])>>
    /\ last_step = "load"
    /\ raised = "JSONDecodeError"
    /\ _repo_ops = <<>>

\* C7: a load() directly after a load(), the disk unchanged, leaves both
\* lists as they were; clear_operators() leaves both lists empty.
C7_ReloadIdempotent ==
    [][/\ (last_step' = "reload") => (_color_ops' = _color_ops /\ _repo_ops' = _repo_ops)
       /\ (last_step' = "clear_operators") => (_color_ops' = <<>> /\ _repo_ops' = <<>>)]_vars

\* a reload that found operators of both kinds
C7_Witness ==
    /\ last_step = "reload"
    /\ raised = "None"
    /\ Len(_color_ops) = 1
    /\ Len(_repo_ops) = 1

\* the file of every decoded OCIOFileTransform
FileOps == {i \in DOMAIN _color_ops : _color_ops[i].cls = "OCIOFileTransform"}

\* C9 as stated: the verbatim path wins when it exists, then the target
\* directory, then a sibling file of the same basename.
C9_VerbatimFirst ==
    Loaded =>
        \A i \in FileOps :
            _color_ops[i].file =
                IF LutVerbatim \in existing THEN "/mnt/luts/a.cube"
                ELSE IF target_dir_path # NoneObj THEN "published/resources/a.cube"
                ELSE IF LutSibling \in existing THEN "/work/shot/resources/a.cube"
                ELSE "/mnt/luts//a.cube"

\* C9 amended: a configured target directory decides first and gives
\* target_dir/basename whether or not the reference exists; otherwise a
\* reference that exists verbatim is kept; otherwise a file of the same
\* basename found recursively beside the effects document is used.
C9_TargetDirFirst ==
    Loaded =>
        \A i \in FileOps :
            _color_ops[i].file =
                IF target_dir_path # NoneObj THEN "published/resources/a.cube"
                ELSE IF LutVerbatim \in existing THEN "/mnt/luts/a.cube"
                ELSE IF LutSibling \in existing THEN "/work/shot/resources/a.cube"
                ELSE "/mnt/luts//a.cube"

\* a reference that exists verbatim was rewritten into the target directory
C9_Witness ==
    /\ Loaded
    /\ target_dir_path = TargetDir
    /\ LutVerbatim \in existing
    /\ FileOps # {}
    /\ \A i \in FileOps : _color_ops[i].file = "published/resources/a.cube"

Unresolvable ==
    /\ target_dir_path = NoneObj
    /\ LutVerbatim \notin existing
    /\ LutSibling \notin existing

\* C10: with an unresolvable file reference load() does not raise, logs a
\* warning, keeps the file value as given and still decodes and appends the
\* operator and the other nodes.
C10_UnresolvableWarns ==
    (Loaded /\ Unresolvable
        /\ CountEntries(LAMBDA v : v.class = "OCIOFileTransform") > 0) =>
        /\ \E j \in DOMAIN log_records : log_records[j].level = "WARNING"
        /\ Cardinality(FileOps) = CountEntries(LAMBDA v : v.class = "OCIOFileTransform")
        /\ \A i \in FileOps : _color_ops[i].file = "/mnt/luts//a.cube"
        /\ Len(_color_ops) + Len(_repo_ops)
             = CountEntries(LAMBDA v : v.class \in ColorClasses \cup RepositionClasses
                                        /\ HasNode(v))

----------------------------------------------------------------------------
(* Properties of the affine transform engine *)

IdentityLiteral == <<<<1, 0, 0>>, <<0, 1, 0>>, <<0, 0, 1>>>>

\* the matrix of the i-th operator of the processor
M(i) == Transform_matrix(operators[i])

\* M(Nk) . (M(Nk-1) . ( ... . M(N1)))
RECURSIVE ReverseStackProduct(_)
ReverseStackProduct(k) ==
    IF k = 0 THEN IdentityLiteral ELSE mult_matrix(M(k), ReverseStackProduct(k - 1))

FlipOr1(b) == IF b THEN flip_matrix(source_width) ELSE IdentityLiteral

FlopOr1(b) == IF b THEN flop_matrix(source_height) ELSE IdentityLiteral

ChainReturned == chain_call # NoCall /\ chain_call.raised = "None"

\* C2: get_matrix_chained(flip, flop) returns flip? . flop? . M(Nk) ... M(N1)
\* . flop? . flip?; for two nodes and no flips that is M(N2) . M(N1).
C2_ChainOrder ==
    (ChainReturned /\ chain_call.reverse_chain) =>
        /\ _raw_matrix =
             mult_matrix(FlipOr1(chain_call.flip),
               mult_matrix(FlopOr1(chain_call.flop),
                 mult_matrix(ReverseStackProduct(Len(operators)),
                   mult_matrix(FlopOr1(chain_call.flop), FlipOr1(chain_call.flip)))))
        /\ (Len(operators) = 2 /\ ~chain_call.flip /\ ~chain_call.flop) =>
              _raw_matrix = mult_matrix(M(2), M(1))

\* two operators that do not commute were chained without flips
C2_Witness ==
    /\ ChainReturned
    /\ chain_call.reverse_chain /\ ~chain_call.flip /\ ~chain_call.flop
    /\ Len(operators) = 2
    /\ mult_matrix(M(1), M(2)) # mult_matrix(M(2), M(1))
    /\ _raw_matrix = mult_matrix(M(2), M(1))

C8_DocumentedDefaults ==
    (xform # NoneObj /\ node_data # NoneObj) =>
        /\ ("translate" \notin DOMAIN node_data) => xform.translate = <<0, 0>>
        /\ ("rotate" \notin DOMAIN node_data) => xform.rotate = 0
        /\ ("scale" \notin DOMAIN node_data) => xform.scale = <<1, 1>>
        /\ ("center" \notin DOMAIN node_data) => xform.center = <<0, 0>>
        /\ ("scale" \in DOMAIN node_data /\ node_data.scale.t = "number") =>
              xform.scale = <<node_data.scale.v, node_data.scale.v>>

----------------------------------------------------------------------------
(* Properties of the colour operators *)

\* the node carries a file: the key is there and its string is not empty
NodeHasFile == "file" \in DOMAIN color_data /\ color_data["file"] # ""

\* the direction every emitted transform has to carry
NodeDirection ==
    IF "direction" \in DOMAIN color_data /\ color_data["direction"] = Str("inverse")
    THEN "TRANSFORM_DIR_INVERSE"
    ELSE "TRANSFORM_DIR_FORWARD"

\* C11: an OCIOCDLTransform decoded from node data emits [file transform,
\* CDL transform] when the node carries a file and [CDL transform] when it
\* does not; every emitted transform carries the same direction, inverse
\* exactly when the node's direction is "inverse" and forward otherwise.
C11_CdlEmission ==
    ocio_obj # NoneObj =>
        LET e == ocio_obj.v
        IN  /\ IF NodeHasFile
               THEN /\ Len(e) = 2
                    /\ e[1].t = "FileTransform"
                    /\ e[2].t = "CDLTransform"
               ELSE /\ Len(e) = 1
                    /\ e[1].t = "CDLTransform"
            /\ \A k \in 1 .. Len(e) : e[k].direction = NodeDirection

\* a node with a file and the direction "inverse" has been emitted
C11_Witness ==
    /\ ocio_obj # NoneObj
    /\ NodeHasFile
    /\ NodeDirection = "TRANSFORM_DIR_INVERSE"
    /\ Len(ocio_obj.v) = 2

----------------------------------------------------------------------------
(* Properties of the command emitters *)

\* the arguments of one emitted colour transform
TransformArgs(tr) ==
    CASE tr.t = "ColorSpaceTransform" -> <<"--colorconvert", tr.src, tr.dst>>
      [] tr.t = "FileTransform" -> <<"--ociofiletransform", as_posix(resolve(Path(tr.src)))>>
      [] OTHER -> <<>>

\* the arguments of the transforms the first k colour operators emit
RECURSIVE EmittedColourArgs(_)
EmittedColourArgs(k) ==
    IF k = 0 THEN <<>>
    ELSE LET e == to_ocio_obj(_color_ops[k])
             own == IF Len(e) = 2 THEN TransformArgs(e[1]) \o TransformArgs(e[2])
                    ELSE TransformArgs(e[1])
         IN  EmittedColourArgs(k - 1) \o own

\* the arguments of the first k reposition operators
RECURSIVE EmittedRepoArgs(_)
EmittedRepoArgs(k) ==
    IF k = 0 THEN <<>> ELSE EmittedRepoArgs(k - 1) \o to_oiio_args(_repo_ops[k])

\* C12: get_oiiotool_cmd() returns the arguments of every colour transform
\* the colour operators emit, in effect order, followed by the arguments of
\* every reposition operator in effect order.
C12_ColourThenRepoArgs ==
    last_step = "get_oiiotool_cmd" =>
        returned = Lst(EmittedColourArgs(Len(_color_ops)) \o EmittedRepoArgs(Len(_repo_ops)))

----------------------------------------------------------------------------
(* Properties of OCIOConfigFileGenerator *)

\* the last call was a create_config() of the instance g that returned
Created(g) ==
    gen_call.op = "create_config" /\ gen_call.g = g /\ gen_call.raised = "None"

\* the base config the instance g was constructed on
BaseOf(g) == BaseConfig(as_posix(resolve(gen[g]._config_path)))

\* the items of the given name in a list of named items
Named(items, name) == {i \in 1 .. Len(items) : items[i].name = name}

\* the active-views string a config of the instance g has to carry
ExpectedActiveViews(g) ==
    IF ViewsOf(g) # <<>>
    THEN gen[g].context \o "," \o JoinComma(ViewsOf(g))
    ELSE gen[g].context \o "," \o BaseOf(g).active_views

\* C13: after create_config() the config holds a colour space, a look and
\* a view on the first active display, all named after the context; the look
\* is processed in working_space; the view shows target_view_space
\* (working_space when the constructor was given none) through the context
\* look; the active views are the context followed by the requested views
\* in their order, or by the active views of the base config.
C13_ContextEntities ==
    /\ \A g \in GenIds :
          (gen_call.op = "__init__" /\ gen_call.g = g /\ gen_call.raised = "None") =>
              LET a == gen_call.args
                  ws == IF a.working_space = "None" THEN "ACES - ACEScg" ELSE a.working_space
              IN  /\ gen[g].working_space = ws
                  /\ gen[g].target_view_space =
                         IF a.target_view_space = "None" THEN ws ELSE a.target_view_space
    /\ \A g \in GenIds :
          Created(g) =>
              LET self == gen[g]
                  cfg == self._ocio_config
                  display == "ACES"
                  views == cfg.displays[display]
              IN  /\ Named(cfg.colorspaces, self.context) # {}
                  /\ Named(cfg.looks, self.context) # {}
                  /\ \A i \in Named(cfg.looks, self.context) :
                         cfg.looks[i].processSpace = self.working_space
                  /\ Named(views, self.context) # {}
                  /\ \A i \in Named(views, self.context) :
                         /\ views[i].colorspace = self.target_view_space
                         /\ views[i].looks = self.context
                  /\ cfg.active_views = ExpectedActiveViews(g)
                  /\ disk[gen_call.returned.v] = cfg

\* a config was created with requested views and a target view space that
\* is not the working space
C13_Witness ==
    /\ Created(1)
    /\ ViewsOf(1) = <<"v1", "v2">>
    /\ gen[1].target_view_space = "sRGB"
    /\ gen[1].working_space = "lin"
    /\ gen[1]._ocio_config.active_views = "sh010,v1,v2"

\* C14: every create_config() starts from the base config as it is on disk:
\* the config it ends with is the base config plus exactly the context
\* colour space, look and view, the variables and the search paths of the
\* generator, and a create_config() after one that returned returns too.
C14_FreshBaseConfig ==
    [][\A g \in GenIds :
          (gen_call'.op = "create_config" /\ gen_call'.g = g /\ gen[g] # NoneObj) =>
              /\ gen[g]._dest_path # "" => gen_call'.raised = "None"
              /\ gen_call'.raised = "None" =>
                    LET self == gen'[g]
                        cfg == self._ocio_config
                        base == BaseOf(g)
                        nbase == Len(base.colorspaces)
                    IN  /\ Len(cfg.colorspaces) = nbase + 1
                        /\ SubSeq(cfg.colorspaces, 1, nbase) = base.colorspaces
                        /\ Len(cfg.looks) = Len(base.looks) + 1
                        /\ DOMAIN cfg.displays = DOMAIN base.displays
                        /\ Len(cfg.displays["ACES"]) = Len(base.displays["ACES"]) + 1
                        /\ cfg.displays["sRGB"] = base.displays["sRGB"]
                        /\ cfg.active_views = ExpectedActiveViews(g)'
                        /\ {cfg.env[i].name : i \in 1 .. Len(cfg.env)}
                               = {VarsOf(g)[i].name : i \in 1 .. Len(VarsOf(g))}
                        /\ cfg.search_paths = self._ocio_search_paths]_vars

\* create_config() has returned twice on one generator
C14_Witness ==
    /\ Created(1)
    /\ Cardinality(DOMAIN disk) = 2
    /\ Len(gen[1]._ocio_config.colorspaces) = 4

\* C15: the search-path list of a generator never holds the same directory
\* twice, whatever construction and create_config() calls it went through.
C15_NoDuplicateSearchPaths ==
    \A g \in GenIds :
        gen[g] # NoneObj =>
            LET paths == gen[g]._ocio_search_paths
            IN  \A i, j \in 1 .. Len(paths) : paths[i] = paths[j] => i = j

\* the step is a create_config() call of the instance g
CreateConfigStep(g) ==
    gen[g] # NoneObj /\ gen_call'.op = "create_config" /\ gen_call'.g = g

\* the search paths a create_config() step of the instance g appended
Collected(g) ==
    SubSeq(gen'[g]._ocio_search_paths,
           Len(gen[g]._ocio_search_paths) + 1, Len(gen'[g]._ocio_search_paths))

\* the configured variables whose value occurs in the text, by position
Occurring(vs, text) == {i \in 1 .. Len(vs) : str_in(vs[i].value, text)}

\* text with the first configured variable whose value occurs in it
\* replaced by $NAME, and text itself when none occurs
FirstSubstituted(vs, text) ==
    IF Occurring(vs, text) = {} THEN text
    ELSE LET i == CHOOSE k \in Occurring(vs, text) : \A l \in Occurring(vs, text) : k <= l
         IN  str_replace(text, vs[i].value, "$" \o vs[i].name)

C17_UnresolvableOmitted ==
    [][\A g \in GenIds :
          (CreateConfigStep(g) /\ gen_call'.raised # "Exception") =>
              /\ Len(Collected(g)) = Cardinality(Range(real_paths_of(gen[g], BaseOf(g))))
              /\ gen_call'.raised = "None"
              /\ gen_call'.returned.v \in DOMAIN disk']_vars

ResolvedDest(dest) == IF dest = "None" THEN "/out/config.ocio" ELSE "/" \o Cwd \o "/" \o dest

\* C19: a create_config(dest) that returns gives the resolved destination,
\* where the config then is; get_oiiotool_cmd() afterwards returns exactly
\* "--colorconfig", that destination, the look argument from and to the
\* working space, and the context name.
C19_OiiotoolCmd ==
    \A g \in GenIds :
        /\ Created(g) =>
              /\ gen_call.returned = Str(ResolvedDest(gen_call.args.v))
              /\ gen[g]._dest_path = gen_call.returned.v
              /\ gen_call.returned.v \in DOMAIN disk
        /\ (gen_call.op = "get_oiiotool_cmd" /\ gen_call.g = g /\ gen[g]._dest_path # "") =>
              /\ gen[g]._dest_path \in {ResolvedDest(d) : d \in {"None", "b/shot.ocio"}}
              /\ gen_call.returned =
                     Lst(<<"--colorconfig",
                           gen[g]._dest_path,
                           "--ociolook:from=\"" \o gen[g].working_space
                               \o "\":to=\"" \o gen[g].working_space \o "\"",
                           gen[g].context>>)

\* get_oiiotool_cmd() was called after a create_config() to a relative
\* destination, on a generator whose target view space is not its working
\* space
C19_Witness ==
    /\ gen_call.op = "get_oiiotool_cmd"
    /\ gen[1]._dest_path = "/work/b/shot.ocio"
    /\ gen[1].working_space = "lin"
    /\ gen[1].target_view_space = "sRGB"
    /\ gen_call.returned.v[3] = "--ociolook:from=\"lin\":to=\"lin\""

\* C20: no operation on one generator changes the views, variables,
\* operators or search paths seen through another generator.
C20_NoSharedState ==
    [][\A g, h \in GenIds :
          (/\ g # h
           /\ gen[g] # NoneObj
           /\ gen[h] # NoneObj
           /\ gen_call'.g = g
           /\ gen_call'.op # "__init__") =>
              /\ ViewsOf(h)' = ViewsOf(h)
              /\ VarsOf(h)' = VarsOf(h)
              /\ gen'[h]._operators = gen[h]._operators
              /\ gen'[h]._ocio_search_paths = gen[h]._ocio_search_paths]_vars

----------------------------------------------------------------------------
(* Properties of the look product and the look file processor *)

LookItemsOf(d) == d["data"].ocioLookItems

\* the colour space the chain is in before the i-th item
SpaceBefore(items, i) ==
    IF i = 1 THEN LookWorkingSpace.colorspace
    ELSE items[i - 1]["output_colorspace"].colorspace

\* the items among the first k that need a conversion in front
Converted(items, k) ==
    {i \in 1 .. k : SpaceBefore(items, i) # items[i]["input_colorspace"].colorspace}

\* the chain is colour-space continuous for the items
Continuous(chain, items) ==
    LET n == Len(items)
        last == items[n]["output_colorspace"].colorspace
        back == IF last # LookWorkingSpace.colorspace THEN 1 ELSE 0
        pos(i) == i + Cardinality(Converted(items, i))
    IN  /\ Len(chain) = n + Cardinality(Converted(items, n)) + back
        /\ \A i \in 1 .. n :
              /\ chain[pos(i)].t = "FileTransform"
              /\ chain[pos(i)].direction = get_direction(items[i]["direction"])
              /\ i \in Converted(items, i) =>
                     chain[pos(i) - 1] =
                         ColorSpaceTransform(SpaceBefore(items, i),
                                             items[i]["input_colorspace"].colorspace)
        /\ back = 1 =>
               chain[Len(chain)] = ColorSpaceTransform(last, LookWorkingSpace.colorspace)

\* C21: for a non-empty list of look items the emitted chain starts in the
\* working space, has a conversion in front of an item's file transform
\* exactly when the current space is not the item's input space, has the
\* file transforms in item order, and ends with one conversion back to the
\* working space exactly when the last output is not the working space; its
\* length is the number of items plus the conversions.
C21_ContinuousChain ==
    /\ (look_call.op = "to_ocio_obj" /\ look_call.raised = "None") =>
           /\ Continuous(look_call.returned.v, LookItemsOf(look_doc))
           /\ \A i \in 1 .. Len(LookItemsOf(look_doc)) :
                  \E k \in 1 .. Len(look_call.returned.v) :
                      /\ look_call.returned.v[k].t = "FileTransform"
                      /\ look_call.returned.v[k].src =
                             as_posix(Path(LookItemsOf(look_doc)[i]["file"]))
    /\ (look_call.op \in {"__init__", "load"} /\ look_call.raised = "None") =>
           Continuous(look_ops.v, LookItemsOf(look_doc))

\* the chain of the two-item case has five elements, that of one item with
\* input and output off the working space three
C21_Witness ==
    /\ look_call.op = "to_ocio_obj"
    /\ look_call.raised = "None"
    /\ Len(LookItemsOf(look_doc)) = 2
    /\ Len(look_call.returned.v) = 5
    /\ look_call.returned.v[3] = ColorSpaceTransform("ACES - ACEScc", "Output - Rec.709")

\* the last call was a load() of the processor, from __init__ or directly
LoadCalled == look_call.op \in {"__init__", "load"}

\* the processor has no operator (or there is no processor)
NoLookOperators == look_ops = NoneObj \/ look_ops = Lst(<<>>)

\* C22 as stated: load() accepts a document only if its version field
\* equals 1; a document with another version or without the field makes it
\* raise, with no operator afterwards.
C22_VersionFieldRequired ==
    (LoadCalled /\ ("version" \notin DOMAIN look_doc \/ look_doc["version"] # Num(1))) =>
        (look_call.raised = "ValueError" /\ NoLookOperators)

\* C22: load() raises its version error exactly for a document that has a
\* version field with a value other than 1, and leaves no operator then; a
\* document without the field is read as version 1.
C22_VersionDefaultsToOne ==
    LoadCalled =>
        /\ look_call.raised = "ValueError" <=>
               ("version" \in DOMAIN look_doc /\ look_doc["version"] # Num(1))
        /\ look_call.raised = "ValueError" => NoLookOperators

\* load() on a processor raised for a version 2 document; the operators of
\* the earlier load are gone
C22_Witness ==
    /\ look_call.op = "load"
    /\ look_call.raised = "ValueError"
    /\ look_doc["version"] = Num(2)
    /\ LookItemsOf(look_doc) # <<>>
    /\ look_ops = Lst(<<>>)

\* an item carries no file, or an empty one
Fileless(item) == ~TruthyStr(item, "file")

\* no target path and no file with the extension beside the look file
NothingToFind ==
    /\ look_target = NoneObj
    /\ \A i \in 1 .. Len(look_files) : ~EndsWith(look_files[i].name, "cube")

\* C23: when an item carries no file and none can be found, load() logs a
\* warning and does not raise; the remaining items are still processed.
C23_UnresolvedWarns ==
    (/\ LoadCalled
     /\ Get(look_doc, "version", Num(1)) = Num(1)
     /\ NothingToFind
     /\ \E i \in 1 .. Len(LookItemsOf(look_doc)) : Fileless(LookItemsOf(look_doc)[i])) =>
        /\ look_call.raised = "None"
        /\ \E k \in 1 .. Len(look_call.log) : look_call.log[k].level = "WARNING"
        /\ Cardinality({k \in 1 .. Len(look_ops.v) : look_ops.v[k].t = "FileTransform"})
               = Len(LookItemsOf(look_doc))

\* C30: with a working space and no look item, to_ocio_obj() and load()
\* complete without error and give an empty chain.
C30_EmptyLookGivesEmptyChain ==
    LookItemsOf(look_doc) = <<>> =>
        /\ look_call.op = "to_ocio_obj" =>
               (look_call.raised = "None" /\ look_call.returned = Lst(<<>>))
        /\ (LoadCalled /\ Get(look_doc, "version", Num(1)) = Num(1)) =>
               (look_call.raised = "None" /\ look_ops = Lst(<<>>))

----------------------------------------------------------------------------
(* Properties of the reposition emitters and of OIIORepositionProcessor *)

\* C24: Mirror2.to_oiio_args() gives "--flop" exactly when flop is set and
\* "--flip" exactly when flip is set and nothing else, flop first.
C24_MirrorArgs ==
    tool_call.op = "Mirror2.to_oiio_args" =>
        LET flop == Get(tool_call.input.data, "flop", FALSE)
            flip == Get(tool_call.input.data, "flip", FALSE)
            args == tool_call.returned.v
        IN  /\ tool_call.raised = "None"
            /\ (flop /\ flip) => args = <<"--flop", "--flip">>
            /\ (flop /\ ~flip) => args = <<"--flop">>
            /\ (~flop /\ flip) => args = <<"--flip">>
            /\ (~flop /\ ~flip) => args = <<>>

\* both set: flop comes first
C24_Witness ==
    /\ tool_call.op = "Mirror2.to_oiio_args"
    /\ tool_call.input.data = [flop |-> TRUE, flip |-> TRUE]
    /\ tool_call.returned = Lst(<<"--flop", "--flip">>)

\* the number q is the quotient a / b
IsQuotient(q, a, b) == q.d # 0 /\ q.n * b = a * q.d

\* pin holds the images under m of the corners, in their order, each with
\* its first two components divided by the third
ImagesOf(pin, m, corners) ==
    /\ Len(pin) = 8
    /\ \A i \in 1 .. 4 :
           LET x == corners[i][1]
               y == corners[i][2]
               third == m[3][1] * x + m[3][2] * y + m[3][3]
           IN  /\ IsQuotient(pin[2 * i - 1], m[1][1] * x + m[1][2] * y + m[1][3], third)
               /\ IsQuotient(pin[2 * i], m[2][1] * x + m[2][2] * y + m[2][3], third)

UpperLeftOrder(w, h) == << <<0, h>>, <<w, h>>, <<0, 0>>, <<w, 0>> >>

LowerLeftOrder(w, h) == << <<0, 0>>, <<w, 0>>, <<0, h>>, <<w, h>> >>

\* C25: matrix_to_cornerpin returns eight numbers, the images of the
\* corners (0,h),(w,h),(0,0),(w,0) for an upper-left origin and
\* (0,0),(w,0),(0,h),(w,h) for a lower-left one, each the product with m
\* divided by its third component; the identity gives the corners
\* themselves; get_cornerpin_data takes the lower-left order with the
\* source width and height.
C25_Cornerpin ==
    /\ (tool_call.op = "matrix_to_cornerpin" /\ tool_call.raised = "None") =>
           LET x == tool_call.args
               corners == IF x.origin_upperleft THEN UpperLeftOrder(x.w, x.h)
                          ELSE LowerLeftOrder(x.w, x.h)
               pin == tool_call.returned.v
           IN  /\ ImagesOf(pin, x.m, corners)
               /\ x.m = identity_matrix =>
                      \A i \in 1 .. 4 : /\ pin[2 * i - 1] = [n |-> corners[i][1], d |-> 1]
                                        /\ pin[2 * i] = [n |-> corners[i][2], d |-> 1]
    /\ (tool_call.op = "get_cornerpin_data" /\ tool_call.raised = "None") =>
           ImagesOf(tool_call.returned.v, tool_call.args.matrix,
                    LowerLeftOrder(source_width, source_height))

\* a lower-left call with a perspective divide: w = 1, h = 2, third
\* component x + 1
C25_Witness ==
    /\ tool_call.op = "matrix_to_cornerpin"
    /\ tool_call.args.m = << <<1, 0, 0>>, <<0, 1, 0>>, <<1, 0, 1>> >>
    /\ tool_call.args.w = 1
    /\ tool_call.args.h = 2
    /\ ~tool_call.args.origin_upperleft
    /\ tool_call.returned =
           Lst(<<[n |-> 0, d |-> 1], [n |-> 0, d |-> 1], [n |-> 1, d |-> 2], [n |-> 0, d |-> 1],
                 [n |-> 0, d |-> 1], [n |-> 2, d |-> 1], [n |-> 1, d |-> 2], [n |-> 1, d |-> 1]>>)

\* C26: a processor constructed with no operators and no source or
\* destination size returns an empty argument vector from
\* get_oiiotool_cmd() and raises no error.
C26_EmptyProcessorEmptyCmd ==
    (/\ tool_call.op = "get_oiiotool_cmd"
     /\ operators = <<>>
     /\ source_width = NoSize /\ source_height = NoSize
     /\ dest_width = NoSize /\ dest_height = NoSize) =>
        (tool_call.raised = "None" /\ tool_call.returned = Lst(<<>>))

\* the reference substitution: the value of the first variable that is a
\* prefix of the path is replaced by $NAME, any other path is unchanged
RECURSIVE PrefixSwap(_, _)
PrefixSwap(vs, text) ==
    IF vs = <<>> THEN text
    ELSE IF StartsWith(text, Head(vs).value)
    THEN "$" \o Head(vs).name \o SubSeq(text, Len(Head(vs).value) + 1, Len(text))
    ELSE PrefixSwap(Tail(vs), text)

\* C27: _swap_variables(path) equals the reference substitution: only the
\* first variable whose value is a prefix of the path is substituted, a
\* value occurring elsewhere in the path is not, and a path matching no
\* variable is returned unchanged.
C27_PrefixSubstitution ==
    tool_call.op = "_swap_variables" =>
        tool_call.returned = Str(PrefixSwap(tool_call.args.vs, tool_call.args.text))

----------------------------------------------------------------------------
(* Determinism of create_config() *)

\* what another run of the same create_config() call, in which the set of
\* the collected directories is iterated in the given order, ends with
OtherRun(g, order) ==
    create_config(gen[g], VarsOf(g), ViewsOf(g), gen_call'.args.v, order)

\* C28: create_config() is deterministic in the order of the search paths:
\* every run of the call on the same inputs appends the same search-path
\* list in the same order, so the first search path and the written config
\* are the same.
C28_DeterministicSearchPathOrder ==
    [][\A g \in GenIds :
          CreateConfigStep(g) =>
              \A order \in SetOrders(Range(real_paths_of(gen[g], BaseOf(g)))) :
                  /\ OtherRun(g, order).self._ocio_search_paths = gen'[g]._ocio_search_paths
                  /\ OtherRun(g, order).raised = gen_call'.raised
                  /\ gen_call'.raised = "None" =>
                         OtherRun(g, order).written[gen_call'.returned.v]
                             = disk'[gen_call'.returned.v]]_vars

----------------------------------------------------------------------------
(* Properties of call_cmd *)

\* the attempts that completed within the timeout
CompletedAttempts ==
    {i \in 1 .. Len(cmd_run.outcomes) : cmd_run.outcomes[i] = "completed"}

\* C29: call_cmd starts the command again only after an attempt timed out:
\* every attempt before the last one started has timed out, there are never
\* more than retries + 1 attempts, and the output returned is that of the
\* attempt that completed.
C29_RetryOnlyAfterTimeout ==
    /\ \A i \in 1 .. Len(cmd_run.outcomes) - 1 : cmd_run.outcomes[i] = "timeout"
    /\ Len(cmd_run.outcomes) <= cmd_run.retries + 1
    /\ (cmd_run.pc = "done" /\ CompletedAttempts # {}) =>
           /\ Cardinality(CompletedAttempts) = 1
           /\ \A i \in CompletedAttempts : cmd_run.returned = OutputOf(i)

====
